---- MODULE Spec2Model ----
(***************************************************************************)
(* A model of the audio palette library (flutter_stem_player/rust):        *)
(* the SQLite store of sounds and fingerprints (database/mod.rs), the      *)
(* fingerprint record and its cosine similarity (fingerprint/mod.rs) and   *)
(* the two-pass similarity search (search/mod.rs), the functions exposed   *)
(* to the caller (api.rs) and the MIDI export (midi/mod.rs).               *)
(*                                                                         *)
(* Numbers.  An f64 time is kept as the exact fraction it is computed      *)
(* from, a record [n |-> samples, r |-> sample rate] standing for n / r    *)
(* seconds.  A similarity score is kept in whole percent, 0..100: the      *)
(* value of the f64 expression truncated to an integer.  Feature values    *)
(* are small integers, and the three spectral features are multiples of    *)
(* 10000 Hz so that the division of to_vector is exact.                    *)
(***************************************************************************)
EXTENDS Integers, Sequences, FiniteSets, TLC

VARIABLES
    sounds,         \* table sounds: id -> SoundRecord
    fingerprints,   \* table fingerprints: sound_id -> payload
    seq,            \* sqlite_sequence entry of table sounds (AUTOINCREMENT)
    foreign_keys,   \* whether the SQLite build enforces REFERENCES clauses
    now,            \* CURRENT_TIMESTAMP
    issued,         \* history: the ids add_sound has newly assigned, in order
    ret,            \* the last store call and what it returned
    files,          \* the file system: filepath -> audio file
    query,          \* the arguments of the running search query
    pc,             \* where the running search query is
    scan,           \* pass 1: the fingerprints read, and each worker's progress
    scored,         \* pass 1 result after sort and truncate: <<(sound_id, score)>>
    candidates,     \* the sound records looked up for the scored ids
    fine,           \* pass 2: each worker's progress and the per-candidate outcome
    results,        \* the Match list the query returns
    seg,            \* one find_best_segment call, window by window
    live,           \* history: the (id, filepath) added and not removed since
    api,            \* api.rs: the DATABASE singleton and the last API return
    threads,        \* api.rs: the threads calling the API, the lock, the connection
    midi,           \* midi/mod.rs: one export call and the output file
    calc,           \* the arguments and the value of one fingerprint method call
    loading         \* audio.rs: one AudioData::load call, packet by packet

storeVars == <<sounds, fingerprints, seq, foreign_keys, now, issued, ret>>
queryVars == <<query, pc, scan, scored, candidates, fine, results>>
vars == <<sounds, fingerprints, seq, foreign_keys, now, issued, ret, files,
          query, pc, scan, scored, candidates, fine, results, seg,
          live, api, threads, midi, calc, loading>>

-----------------------------------------------------------------------------
(* Bounds of the model *)

\* ids AUTOINCREMENT may hand out before the model stops adding rows
MaxId == 2
\* the last value of CURRENT_TIMESTAMP the model lets the clock reach
MaxClock == 1
\* the size of the largest library a query is run against
MaxSounds == 22

-----------------------------------------------------------------------------
(* Program constants *)

\* Fingerprinter::default(): n_mfcc, hop_length, n_fft
n_mfcc == 13
hop_length == 512
n_fft == 2048
\* compute_chroma: n_chroma
n_chroma == 12
\* to_vector: the divisor of the three spectral features
SpectralScale == 10000
\* similarity: the top of the score range
MaxScore == 100
\* find_similar_with_segments: scored.truncate(20)
CoarseCap == 20
\* find_best_segment: max_windows and the divisor of hop_samples
max_windows == 50
HopDivisor == 4

-----------------------------------------------------------------------------
(* Helpers *)

None == [none |-> TRUE]

Max(a, b) == IF a >= b THEN a ELSE b

Min(a, b) == IF a <= b THEN a ELSE b

MaxOf(S) == CHOOSE x \in S : \A y \in S : y <= x

Range(s) == {s[i] : i \in DOMAIN s}

RECURSIVE SumSeq(_)
SumSeq(s) ==
    IF s = <<>> THEN 0 ELSE Head(s) + SumSeq(Tail(s))

\* the first k elements of s (Vec::truncate)
Truncate(s, k) == SubSeq(s, 1, Min(Len(s), k))

\* the ascending enumeration of a finite set of integers
RECURSIVE Ascending(_)
Ascending(S) ==
    IF S = {} THEN <<>>
    ELSE LET m == CHOOSE x \in S : \A y \in S : x <= y
         IN <<m>> \o Ascending(S \ {m})

(* Times: n / r seconds *)
Time(n, r) == [n |-> n, r |-> r]

TimeLE(a, b) == a.n * b.r <= b.n * a.r

TimeZero == Time(0, 1)

-----------------------------------------------------------------------------
(* fingerprint/mod.rs: the fingerprint record *)

(* An f64 is kept as the integer it equals (scores in whole percent, spectral *)
(* features in multiples of 10000); one integer that no feature, product or    *)
(* sum reaches stands for NaN, and every operation on it gives what the f64    *)
(* operation gives on NaN.                                                     *)
NaN == -1000000

is_nan(x) == x = NaN

\* a * b and a / b on f64 (b divides a when neither is NaN)
f64_mul(a, b) == IF is_nan(a) \/ is_nan(b) THEN NaN ELSE a * b

f64_div(a, b) == IF is_nan(a) \/ is_nan(b) THEN NaN ELSE a \div b

\* a == b on f64: NaN equals nothing
f64_eq(a, b) == ~is_nan(a) /\ ~is_nan(b) /\ a = b

\* f64::clamp: NaN stays NaN
f64_clamp(x, lo, hi) == IF is_nan(x) THEN NaN ELSE Min(Max(x, lo), hi)

\* f64::max and f64::min: when one operand is NaN the other is returned
f64_max(a, b) == IF is_nan(a) THEN b ELSE IF is_nan(b) THEN a ELSE Max(a, b)

f64_min(a, b) == IF is_nan(a) THEN b ELSE IF is_nan(b) THEN a ELSE Min(a, b)

Zeros(k) == [i \in 1..k |-> 0]

\* An AudioFingerprint whose features are m (first MFCC mean), c (spectral
\* centroid, Hz) and e (RMS mean); every other feature is 0.
AudioFingerprint(duration, sample_rate, m, c, e) ==
    [duration |-> duration, sample_rate |-> sample_rate,
     mfcc_mean |-> [Zeros(n_mfcc) EXCEPT ![1] = m],
     mfcc_std |-> Zeros(n_mfcc),
     spectral_centroid |-> c, spectral_bandwidth |-> 0, spectral_rolloff |-> 0,
     rms_mean |-> e, rms_std |-> 0, zero_crossing_rate |-> 0,
     chroma_mean |-> Zeros(n_chroma)]

to_vector(fp) ==
    fp.mfcc_mean \o fp.mfcc_std
      \o << f64_div(fp.spectral_centroid, SpectralScale),
            f64_div(fp.spectral_bandwidth, SpectralScale),
            f64_div(fp.spectral_rolloff, SpectralScale) >>
      \o << fp.rms_mean, fp.rms_std, fp.zero_crossing_rate >>
      \o fp.chroma_mean

\* v1[1] * v2[1] + ... + v1[k] * v2[k] when no term is NaN
RECURSIVE DotTo(_, _, _)
DotTo(v1, v2, k) ==
    IF k = 0 THEN 0 ELSE v1[k] * v2[k] + DotTo(v1, v2, k - 1)

\* the sum of the products of the zipped pairs: NaN as soon as one term is
Dot(v1, v2) ==
    IF \E k \in 1..Min(Len(v1), Len(v2)) : is_nan(f64_mul(v1[k], v2[k])) THEN NaN
    ELSE DotTo(v1, v2, Min(Len(v1), Len(v2)))

\* 50 * dot >= k * sqrt(p), decided on the squares (p > 0, dot * dot <= p);
\* it holds for k = -50 and, when it holds for k, for every smaller k
HalfCosAtLeast(dot, p, k) ==
    IF k <= 0
    THEN dot >= 0 \/ 2500 * dot * dot <= k * k * p
    ELSE dot >= 0 /\ 2500 * dot * dot >= k * k * p

\* the score with dot / (norm1 * norm2) computed on the squared norms (the two
\* sqrt() left out)
half_cosine_no_sqrt(dot, sq1, sq2) ==
    IF is_nan(dot) \/ is_nan(sq1) \/ is_nan(sq2) THEN NaN
    ELSE Cardinality({s \in 1..MaxScore : (s - 50) * sq1 * sq2 <= 50 * dot})

\* (cosine + 1) / 2 * 100 in whole percent: NaN when the dot product or a
\* norm is, else the largest s with s - 50 <= 50 * cosine, which is the number
\* of s in 1..100 that satisfy it
half_cosine(dot, sq1, sq2) ==
    IF is_nan(dot) \/ is_nan(sq1) \/ is_nan(sq2) THEN NaN
    ELSE Cardinality({s \in 1..MaxScore : HalfCosAtLeast(dot, sq1 * sq2, s - 50)})

\* similarity with the score clamped by clamp(0.0, 100.0)
similarity_clamp(self, other) ==
    LET v1 == to_vector(self)
        v2 == to_vector(other)
    IN IF Len(v1) # Len(v2) THEN 0
       ELSE LET dot == Dot(v1, v2)
                sq1 == Dot(v1, v1)
                sq2 == Dot(v2, v2)
            IN IF sq1 = 0 \/ sq2 = 0 THEN 0
               ELSE f64_clamp(half_cosine(dot, sq1, sq2), 0, MaxScore)

\* AudioFingerprint::similarity
similarity(self, other) ==
    LET v1 == to_vector(self)
        v2 == to_vector(other)
    IN IF Len(v1) # Len(v2) THEN 0
       ELSE LET dot == Dot(v1, v2)
                sq1 == Dot(v1, v1)
                sq2 == Dot(v2, v2)
            IN IF sq1 = 0 \/ sq2 = 0 THEN 0
               ELSE f64_min(f64_max(half_cosine(dot, sq1, sq2), 0), MaxScore)

-----------------------------------------------------------------------------
(* database/mod.rs: the store *)

SoundRecord(id, filepath, filename, duration, sample_rate, channels, format, date_added) ==
    [id |-> id, filepath |-> filepath, filename |-> filename,
     duration |-> duration, sample_rate |-> sample_rate,
     channels |-> channels, format |-> format, date_added |-> date_added]

EmptyTable == [i \in {} |-> None]

\* table t with the row of key k set to v (inserted or replaced)
Put(t, k, v) == [i \in DOMAIN t \cup {k} |-> IF i = k THEN v ELSE t[i]]

\* table t without the row of key k
Delete(t, k) == [i \in DOMAIN t \ {k} |-> t[i]]

Tables == [sounds |-> sounds, fingerprints |-> fingerprints]

\* The rowid a plain INTEGER PRIMARY KEY table gives a new row: one more than
\* the largest rowid now in the table.
NextRowidNoAutoincrement == MaxOf(DOMAIN sounds \cup {0}) + 1

\* id INTEGER PRIMARY KEY AUTOINCREMENT: one more than the largest rowid the
\* table has ever held, which sqlite_sequence remembers across deletes.
NextRowid == Max(seq, MaxOf(DOMAIN sounds \cup {0})) + 1

\* SELECT id FROM sounds WHERE filepath = ?1
IdsOfPath(filepath) == {i \in DOMAIN sounds : sounds[i].filepath = filepath}

\* add_sound with INSERT OR REPLACE in place of INSERT OR IGNORE: a registered
\* filepath gets a new row, with a new id, in place of the old one.
db_add_sound_replace(filepath, filename, duration, sample_rate, channels, format) ==
    /\ NextRowid <= MaxId
    /\ LET id == NextRowid
           kept == [i \in DOMAIN sounds \ IdsOfPath(filepath) |-> sounds[i]]
       IN /\ sounds' = Put(kept, id, SoundRecord(id, filepath, filename, duration,
                                                  sample_rate, channels, format, now))
          /\ seq' = id
          /\ issued' = Append(issued, [id |-> id, filepath |-> filepath])
          /\ ret' = [op |-> "add_sound", filepath |-> filepath, ok |-> TRUE,
                     value |-> id, inserted |-> TRUE, prior |-> Tables,
                     args |-> <<filename, duration, sample_rate, channels, format>>]
    /\ UNCHANGED <<fingerprints, foreign_keys, now>>

\* PaletteDatabase::add_sound.  INSERT OR IGNORE, then SELECT id by filepath.
\* When the insert is ignored, whether the rowid it had drawn is written to
\* sqlite_sequence is left to the engine: both outcomes are modelled.
db_add_sound(filepath, filename, duration, sample_rate, channels, format) ==
    /\ IF IdsOfPath(filepath) = {}
       THEN /\ NextRowid <= MaxId
            /\ LET id == NextRowid
               IN /\ sounds' = Put(sounds, id,
                                   SoundRecord(id, filepath, filename, duration,
                                               sample_rate, channels, format, now))
                  /\ seq' = id
                  /\ issued' = Append(issued, [id |-> id, filepath |-> filepath])
                  /\ ret' = [op |-> "add_sound", filepath |-> filepath, ok |-> TRUE,
                             value |-> id, inserted |-> TRUE, prior |-> Tables,
                     args |-> <<filename, duration, sample_rate, channels, format>>]
       ELSE /\ sounds' = sounds
            /\ \/ seq' = seq
               \/ NextRowid <= MaxId /\ seq' = NextRowid
            /\ issued' = issued
            /\ ret' = [op |-> "add_sound", filepath |-> filepath, ok |-> TRUE,
                       value |-> CHOOSE i \in IdsOfPath(filepath) : TRUE,
                       inserted |-> FALSE, prior |-> Tables]
    /\ UNCHANGED <<fingerprints, foreign_keys, now>>

(* serde_json: the fingerprint_json column.  A document is kept as its      *)
(* tokens, one per number: a finite f64 is written as the shortest decimal    *)
(* that reads back as the same f64, kept here as the number it denotes; NaN   *)
(* and the infinities are written as the token null.                          *)
JsonNull == -2000000

JsonNumber(x) == x

\* Serializer::serialize_f64
json_f64(x) == IF is_nan(x) THEN JsonNull ELSE JsonNumber(x)

json_vec(v) == [i \in DOMAIN v |-> json_f64(v[i])]

\* serde_json::to_string(fingerprint): an object with one member per field
to_json(fp) ==
    [duration |-> JsonNumber(fp.duration),
     sample_rate |-> JsonNumber(fp.sample_rate),
     mfcc_mean |-> json_vec(fp.mfcc_mean),
     mfcc_std |-> json_vec(fp.mfcc_std),
     spectral_centroid |-> json_f64(fp.spectral_centroid),
     spectral_bandwidth |-> json_f64(fp.spectral_bandwidth),
     spectral_rolloff |-> json_f64(fp.spectral_rolloff),
     rms_mean |-> json_f64(fp.rms_mean),
     rms_std |-> json_f64(fp.rms_std),
     zero_crossing_rate |-> json_f64(fp.zero_crossing_rate),
     chroma_mean |-> json_vec(fp.chroma_mean)]

\* the tokens of a document where an f64 is read
F64Tokens(json) ==
    {json.spectral_centroid, json.spectral_bandwidth, json.spectral_rolloff,
     json.rms_mean, json.rms_std, json.zero_crossing_rate}
      \cup Range(json.mfcc_mean) \cup Range(json.mfcc_std) \cup Range(json.chroma_mean)

\* serde_json::from_str::<AudioFingerprint>: f64 does not read null; every
\* other token reads as the number it denotes
from_json(json) ==
    IF JsonNull \in F64Tokens(json) THEN [ok |-> FALSE]
    ELSE [ok |-> TRUE,
          fp |-> [duration |-> json.duration,
                  sample_rate |-> json.sample_rate,
                  mfcc_mean |-> json.mfcc_mean,
                  mfcc_std |-> json.mfcc_std,
                  spectral_centroid |-> json.spectral_centroid,
                  spectral_bandwidth |-> json.spectral_bandwidth,
                  spectral_rolloff |-> json.spectral_rolloff,
                  rms_mean |-> json.rms_mean,
                  rms_std |-> json.rms_std,
                  zero_crossing_rate |-> json.zero_crossing_rate,
                  chroma_mean |-> json.chroma_mean]]

\* PaletteDatabase::store_fingerprint.  INSERT OR REPLACE keyed by sound_id; a
\* build that enforces foreign keys refuses a sound_id with no sound row.
store_fingerprint(sound_id, fingerprint) ==
    /\ IF foreign_keys /\ sound_id \notin DOMAIN sounds
       THEN /\ fingerprints' = fingerprints
            /\ ret' = [op |-> "store_fingerprint", id |-> sound_id, ok |-> FALSE,
                       fp |-> fingerprint, prior |-> Tables]
       ELSE /\ fingerprints' = Put(fingerprints, sound_id, to_json(fingerprint))
            /\ ret' = [op |-> "store_fingerprint", id |-> sound_id, ok |-> TRUE,
                       fp |-> fingerprint, prior |-> Tables]
    /\ UNCHANGED <<sounds, seq, foreign_keys, now, issued>>

\* remove_sound that deletes the sound only and leaves the fingerprint to ON
\* DELETE CASCADE, which a build that does not enforce foreign keys ignores
remove_sound_cascade_only(id) ==
    /\ fingerprints' = IF foreign_keys THEN Delete(fingerprints, id) ELSE fingerprints
    /\ sounds' = Delete(sounds, id)
    /\ ret' = [op |-> "remove_sound", id |-> id, ok |-> TRUE, prior |-> Tables]
    /\ UNCHANGED <<seq, foreign_keys, now, issued>>

\* PaletteDatabase::remove_sound: DELETE the fingerprint, then the sound.
remove_sound(id) ==
    /\ fingerprints' = Delete(fingerprints, id)
    /\ sounds' = Delete(sounds, id)
    /\ ret' = [op |-> "remove_sound", id |-> id, ok |-> TRUE, prior |-> Tables]
    /\ UNCHANGED <<seq, foreign_keys, now, issued>>

\* PaletteDatabase::get_sound
get_sound(id) == IF id \in DOMAIN sounds THEN sounds[id] ELSE None

\* PaletteDatabase::get_fingerprint: Ok(None) without a row, Ok(Some(fp)) when
\* the row's document parses, Err when it does not
get_fingerprint(sound_id) ==
    IF sound_id \notin DOMAIN fingerprints THEN [ok |-> TRUE, some |-> FALSE]
    ELSE LET r == from_json(fingerprints[sound_id])
         IN IF r.ok THEN [ok |-> TRUE, some |-> TRUE, fp |-> r.fp]
            ELSE [ok |-> FALSE]

\* the rows of ids up to the first whose document does not parse
RECURSIVE parsed_rows_until_bad(_)
parsed_rows_until_bad(ids) ==
    IF ids = <<>> THEN <<>>
    ELSE LET r == from_json(fingerprints[Head(ids)])
         IN IF r.ok
            THEN <<[sound_id |-> Head(ids), fp |-> r.fp]>>
                    \o parsed_rows_until_bad(Tail(ids))
            ELSE <<>>

\* the rows of ids whose document parses, in the order of ids
RECURSIVE parsed_rows(_)
parsed_rows(ids) ==
    IF ids = <<>> THEN <<>>
    ELSE LET r == from_json(fingerprints[Head(ids)])
         IN (IF r.ok THEN <<[sound_id |-> Head(ids), fp |-> r.fp]>> ELSE <<>>)
              \o parsed_rows(Tail(ids))

\* PaletteDatabase::get_all_fingerprints: the rows in rowid order, without
\* those whose document does not parse
get_all_fingerprints == parsed_rows(Ascending(DOMAIN fingerprints))

\* SELECT COUNT(*) FROM fingerprints
count_fingerprints == Cardinality(DOMAIN fingerprints)

\* PaletteDatabase::count
count == Cardinality(DOMAIN sounds)

-----------------------------------------------------------------------------
(* audio.rs and fingerprint/mod.rs: audio data and feature extraction *)

(* A sample buffer is kept as its runs: <<[n |-> samples, t |-> timbre], ...>>, *)
(* n samples that sound like timbre t.  What the DSP chain (FFT, mel bank,    *)
(* DCT, chroma) computes from the samples is not modelled: a buffer's         *)
(* features are those of the timbre that fills most of it.                    *)

Run(n, t) == [n |-> n, t |-> t]

Timbres == 1..4

\* the features (first MFCC mean, spectral centroid, RMS mean) of a timbre
TimbreFeatures(t) ==
    CASE t = 1 -> [m |-> 2, c |-> 0, e |-> 0]
      [] t = 2 -> [m |-> 2, c |-> SpectralScale, e |-> 0]
      [] t = 3 -> [m |-> 0, c |-> 0, e |-> 2]
      [] OTHER -> [m |-> 0 - 2, c |-> 0, e |-> 0]

\* samples.len()
RECURSIVE SamplesLen(_)
SamplesLen(runs) ==
    IF runs = <<>> THEN 0 ELSE Head(runs).n + SamplesLen(Tail(runs))

\* &samples[start .. start + n]
RECURSIVE Slice(_, _, _)
Slice(runs, start, n) ==
    IF n <= 0 \/ runs = <<>> THEN <<>>
    ELSE LET h == Head(runs)
         IN IF start >= h.n THEN Slice(Tail(runs), start - h.n, n)
            ELSE LET take == Min(h.n - start, n)
                 IN <<Run(take, h.t)>> \o Slice(Tail(runs), 0, n - take)

\* the number of samples of timbre t in a buffer
RECURSIVE TimbreSamples(_, _)
TimbreSamples(runs, t) ==
    IF runs = <<>> THEN 0
    ELSE (IF Head(runs).t = t THEN Head(runs).n ELSE 0) + TimbreSamples(Tail(runs), t)

Dominant(runs) ==
    CHOOSE t \in Timbres :
        \A u \in Timbres :
            \/ TimbreSamples(runs, t) > TimbreSamples(runs, u)
            \/ TimbreSamples(runs, t) = TimbreSamples(runs, u) /\ t <= u

\* AudioData::from_samples, and the value AudioData::load builds
AudioData(samples, sample_rate) ==
    [samples |-> samples, sample_rate |-> sample_rate,
     duration |-> Time(SamplesLen(samples), sample_rate)]

\* AudioData::load of a file that exists: it must decode
decode(file) ==
    IF file.decodes
    THEN [ok |-> TRUE, audio |-> AudioData(file.samples, file.sample_rate)]
    ELSE [ok |-> FALSE]

\* AudioData::load: the file must exist and decode
load(filepath) ==
    IF filepath \in DOMAIN files THEN decode(files[filepath]) ELSE [ok |-> FALSE]

\* MfccExtractor::extract: the frame starts (0..len.saturating_sub(n_fft)).step_by(n_fft / 4)
mfcc_frames(len) ==
    LET hop == n_fft \div 4
    IN (Max(len - n_fft, 0) + hop - 1) \div hop

\* Fingerprinter::extract: Err on empty audio, on audio shorter than n_fft and
\* on audio that yields no MFCC frame
extract(audio) ==
    LET len == SamplesLen(audio.samples)
    IN IF len = 0 \/ len < n_fft \/ mfcc_frames(len) = 0
       THEN [ok |-> FALSE]
       ELSE LET f == TimbreFeatures(Dominant(audio.samples))
            IN [ok |-> TRUE,
                fp |-> AudioFingerprint(audio.duration, audio.sample_rate, f.m, f.c, f.e)]

\* Fingerprinter::extract_from_samples
extract_from_samples(samples, sample_rate) == extract(AudioData(samples, sample_rate))

\* an audio file on disk
File(decodes, sample_rate, samples) ==
    [decodes |-> decodes, sample_rate |-> sample_rate, samples |-> samples]

-----------------------------------------------------------------------------
(* search/mod.rs: find_best_segment *)

MatchResult(sound, score, match_start, match_end, file_duration) ==
    [sound_id |-> sound.id, filepath |-> sound.filepath, filename |-> sound.filename,
     score |-> score, match_start |-> match_start, match_end |-> match_end,
     file_duration |-> file_duration]

\* (query_duration * audio.sample_rate as f64) as usize
window_samples(query_fp, audio) ==
    (query_fp.duration.n * audio.sample_rate) \div query_fp.duration.r

hop_samples(window) == window \div HopDivisor

\* the hop the loop advances by (hop_samples > 0)
actual_hop(len, window) ==
    IF len \div hop_samples(window) > max_windows
    THEN (len - window) \div max_windows
    ELSE hop_samples(window)

\* the loop's variables before its first iteration; windows counts the
\* iterations whose window was fingerprinted and scored, up to max_windows + 1
LoopStart(query_fp) ==
    [pos |-> 0, best_score |-> 0, best_start |-> TimeZero,
     best_end |-> query_fp.duration, windows |-> 0]

\* while pos + window_samples <= audio.samples.len()
LoopGuard(st, audio, window) == st.pos + window <= SamplesLen(audio.samples)

\* one iteration of a loop that takes a window whose score is >= best_score
LoopBodyLastBest(st, query_fp, audio, window, hop) ==
    LET r == extract_from_samples(Slice(audio.samples, st.pos, window), audio.sample_rate)
        score == IF r.ok THEN similarity(query_fp, r.fp) ELSE 0
        better == r.ok /\ score >= st.best_score
    IN [pos |-> st.pos + hop,
        best_score |-> IF better THEN score ELSE st.best_score,
        best_start |-> IF better THEN Time(st.pos, audio.sample_rate) ELSE st.best_start,
        best_end |-> IF better THEN Time(st.pos + window, audio.sample_rate)
                     ELSE st.best_end,
        windows |-> IF r.ok /\ st.windows <= max_windows THEN st.windows + 1
                    ELSE st.windows]

\* one iteration of the loop
LoopBody(st, query_fp, audio, window, hop) ==
    LET r == extract_from_samples(Slice(audio.samples, st.pos, window), audio.sample_rate)
        score == IF r.ok THEN similarity(query_fp, r.fp) ELSE 0
        better == r.ok /\ score > st.best_score
    IN [pos |-> st.pos + hop,
        best_score |-> IF better THEN score ELSE st.best_score,
        best_start |-> IF better THEN Time(st.pos, audio.sample_rate) ELSE st.best_start,
        best_end |-> IF better THEN Time(st.pos + window, audio.sample_rate)
                     ELSE st.best_end,
        windows |-> IF r.ok /\ st.windows <= max_windows THEN st.windows + 1
                    ELSE st.windows]

RECURSIVE Loop(_, _, _, _, _)
Loop(st, query_fp, audio, window, hop) ==
    IF LoopGuard(st, audio, window)
    THEN Loop(LoopBody(st, query_fp, audio, window, hop), query_fp, audio, window, hop)
    ELSE st

\* the fields of the MatchResult a call returns that do not come from the sound
Segment(branch, score, match_start, match_end, file_duration, windows) ==
    [kind |-> "ok", branch |-> branch, score |-> score, match_start |-> match_start,
     match_end |-> match_end, file_duration |-> file_duration, windows |-> windows]

\* Enter with the whole-file branch reporting the duration of the sound record,
\* as the first branch does, in place of the duration of the audio just loaded
EnterStaleDuration(query_fp, a, sound_duration) ==
    IF ~a.ok THEN [kind |-> "err"]
    ELSE IF query_fp.duration.n <= 0
    THEN Segment("unscored", 0, TimeZero, sound_duration, sound_duration, 0)
    ELSE IF TimeLE(a.audio.duration, query_fp.duration)
    THEN LET r == extract(a.audio)
         IN IF ~r.ok THEN [kind |-> "err"]
            ELSE Segment("whole", similarity(query_fp, r.fp), TimeZero,
                         a.audio.duration, sound_duration, 0)
    ELSE LET window == window_samples(query_fp, a.audio)
         IN IF hop_samples(window) = 0 THEN [kind |-> "panic"]
            ELSE [kind |-> "loop", audio |-> a.audio, window |-> window,
                  hop |-> actual_hop(SamplesLen(a.audio.samples), window)]

\* What a call does before the loop, given what load returned and the
\* duration of the sound record: it returns (Ok or Err), panics on the
\* division by a zero hop_samples, or enters the loop.
Enter(query_fp, a, sound_duration) ==
    IF ~a.ok THEN [kind |-> "err"]
    ELSE IF query_fp.duration.n <= 0
    THEN Segment("unscored", 0, TimeZero, sound_duration, sound_duration, 0)
    ELSE IF TimeLE(a.audio.duration, query_fp.duration)
    THEN LET r == extract(a.audio)
         IN IF ~r.ok THEN [kind |-> "err"]
            ELSE Segment("whole", similarity(query_fp, r.fp), TimeZero,
                         a.audio.duration, a.audio.duration, 0)
    ELSE LET window == window_samples(query_fp, a.audio)
         IN IF hop_samples(window) = 0 THEN [kind |-> "panic"]
            ELSE [kind |-> "loop", audio |-> a.audio, window |-> window,
                  hop |-> actual_hop(SamplesLen(a.audio.samples), window)]

\* the value returned after the loop
Leave(st, audio) ==
    Segment("sliding", st.best_score, st.best_start, st.best_end, audio.duration,
            st.windows)

\* the call from load to return: a loop that never advances does not return
segment(query_fp, a, sound_duration) ==
    LET e == Enter(query_fp, a, sound_duration)
    IN IF e.kind # "loop" THEN e
       ELSE IF e.hop = 0 THEN [kind |-> "hang"]
       ELSE Leave(Loop(LoopStart(query_fp), query_fp, e.audio, e.window, e.hop),
                  e.audio)

\* Ok(MatchResult { sound_id: sound.id, ... })
returned(s, sound) ==
    IF s.kind = "ok"
    THEN [kind |-> "ok", branch |-> s.branch, windows |-> s.windows,
          m |-> MatchResult(sound, s.score, s.match_start, s.match_end,
                            s.file_duration)]
    ELSE s

-----------------------------------------------------------------------------
(* search/mod.rs: find_similar and find_similar_with_segments *)

(* The parallel iterators.  par_iter().filter_map(..).collect() hands the     *)
(* items to the pool's workers and collect() joins what each worker kept in   *)
(* the order of the input.  The model runs two workers over the range of      *)
(* items, one taking the next item from the front and one taking the next     *)
(* from the back, in any interleaving; each keeps its own buffer.             *)

Reverse(s) == [i \in 1..Len(s) |-> s[Len(s) + 1 - i]]

\* a join that appends the back worker's buffer as it was filled
collect_by_completion(front, back) == front \o back

\* collect(): the buffers joined in the order of the input
collect(front, back) == front \o Reverse(back)

\* a sort that puts x before the elements of equal score
RECURSIVE InsertDescUnstable(_, _)
InsertDescUnstable(sorted, x) ==
    IF sorted = <<>> THEN <<x>>
    ELSE IF Head(sorted).score > x.score
         THEN <<Head(sorted)>> \o InsertDescUnstable(Tail(sorted), x)
         ELSE <<x>> \o sorted

\* sort_by(|a, b| b.score.partial_cmp(&a.score).unwrap()) inserts x behind
\* every element that does not compare less: the sort is stable
RECURSIVE InsertDesc(_, _)
InsertDesc(sorted, x) ==
    IF sorted = <<>> THEN <<x>>
    ELSE IF Head(sorted).score >= x.score
         THEN <<Head(sorted)>> \o InsertDesc(Tail(sorted), x)
         ELSE <<x>> \o sorted

RECURSIVE sort_by_score_desc(_)
sort_by_score_desc(s) ==
    IF s = <<>> THEN <<>>
    ELSE InsertDesc(sort_by_score_desc(SubSeq(s, 1, Len(s) - 1)), s[Len(s)])

\* the first pass keeps every score
coarse_keeps_all(op, score, threshold) == TRUE

\* the first pass's filter: score >= threshold in find_similar,
\* score >= threshold * 0.8 in find_similar_with_segments
coarse_keeps(op, score, threshold) ==
    IF op = "find_similar" THEN score >= threshold
    ELSE 5 * score >= 4 * threshold

\* the closure of the first pass's filter_map, for one (sound_id, fp)
coarse(q, item) ==
    LET score == similarity(q.query_fp, item.fp)
    IN IF coarse_keeps(q.op, score, q.threshold)
       THEN <<[sound_id |-> item.sound_id, score |-> score]>>
       ELSE <<>>

\* a truncation that ignores the cap of the segmented search
coarse_cap_none(q) == IF q.op = "find_similar" THEN q.max_results ELSE MaxSounds + 1

\* scored.truncate(max_results) and scored.truncate(20)
coarse_cap(q) == IF q.op = "find_similar" THEN q.max_results ELSE CoarseCap

\* a first pass that truncates before it sorts
rank_truncate_first(q, kept) == sort_by_score_desc(Truncate(kept, coarse_cap(q)))

\* the first pass after the parallel region: sort, truncate
rank(q, kept) == Truncate(sort_by_score_desc(kept), coarse_cap(q))

\* find_similar, lines 54-67: the Match of each scored id whose sound exists
RECURSIVE whole_file_matches(_)
whole_file_matches(sc) ==
    IF sc = <<>> THEN <<>>
    ELSE LET sound == get_sound(Head(sc).sound_id)
         IN (IF sound = None THEN <<>>
             ELSE <<MatchResult(sound, Head(sc).score, TimeZero, sound.duration,
                                sound.duration)>>)
            \o whole_file_matches(Tail(sc))

\* find_similar_with_segments, lines 101-106: the sound of each scored id
RECURSIVE lookup(_)
lookup(sc) ==
    IF sc = <<>> THEN <<>>
    ELSE LET sound == get_sound(Head(sc).sound_id)
         IN (IF sound = None THEN <<>>
             ELSE <<[sound |-> sound, score |-> Head(sc).score]>>)
            \o lookup(Tail(sc))

\* the closures of the second pass, for one candidate whose call returned r:
\* .ok() drops an Err, and the filter drops a Match below the threshold
fine_keep(q, r) ==
    IF r.kind = "ok" /\ r.m.score >= q.threshold THEN <<r.m>> ELSE <<>>

\* the second pass after the parallel region: sort, truncate
finish(q, kept) == Truncate(sort_by_score_desc(kept), q.max_results)

-----------------------------------------------------------------------------
(* The store under any sequence of calls *)

\* the filepaths, and the two descriptions a caller passes along with one
Paths == {"/lib/a.wav", "/lib/b.wav"}

Metas ==
    { [filename |-> "a.wav", duration |-> Time(16000, 8000), sample_rate |-> 8000,
       channels |-> 1, format |-> "wav"],
      [filename |-> "b.flac", duration |-> Time(4000, 16000), sample_rate |-> 16000,
       channels |-> 2, format |-> "flac"] }

\* the fingerprints a caller stores: one of a tone, one whose RMS mean is NaN
\* (what compute_rms gives for a buffer that holds a NaN sample)
StoredFps ==
    { AudioFingerprint(Time(16000, 8000), 8000, 2, 0, 0),
      AudioFingerprint(Time(4000, 16000), 16000, 0, 0, NaN) }

NoFiles == [p \in {} |-> None]

\* no API call, no export and no method call in progress
RestIdle ==
    /\ api = None
    /\ threads = None
    /\ midi = None
    /\ calc = None
    /\ loading = None

restVars == <<api, threads, midi, calc, loading>>

QueryIdle ==
    /\ query = None
    /\ pc = "idle"
    /\ scan = None
    /\ scored = <<>>
    /\ candidates = <<>>
    /\ fine = None
    /\ results = <<>>

\* PaletteDatabase::open on a new database file: create_schema leaves both
\* tables empty
StoreInit ==
    /\ sounds = EmptyTable
    /\ fingerprints = EmptyTable
    /\ seq = 0
    /\ foreign_keys \in BOOLEAN
    /\ now = 0
    /\ issued = <<>>
    /\ live = {}
    /\ ret = [op |-> "open", ok |-> TRUE, prior |-> [sounds |-> EmptyTable,
                                                    fingerprints |-> EmptyTable]]

Init ==
    /\ StoreInit
    /\ files = NoFiles
    /\ QueryIdle
    /\ RestIdle
    /\ seg = None

idleVars == <<files, query, pc, scan, scored, candidates, fine, results, seg,
              api, threads, midi, calc, loading>>

\* time passes between two calls
Tick ==
    /\ now < MaxClock
    /\ now' = now + 1
    /\ UNCHANGED <<sounds, fingerprints, seq, foreign_keys, issued, ret, live>>
    /\ UNCHANGED idleVars

DbAddSound ==
    /\ \E filepath \in Paths, m \in Metas :
           /\ db_add_sound(filepath, m.filename, m.duration, m.sample_rate,
                           m.channels, m.format)
           /\ live' = live \cup {[id |-> ret'.value, filepath |-> filepath]}
    /\ UNCHANGED idleVars

DbStoreFingerprint ==
    /\ \E sound_id \in 1..MaxId, fp \in StoredFps : store_fingerprint(sound_id, fp)
    /\ UNCHANGED live
    /\ UNCHANGED idleVars

DbRemoveSound ==
    /\ \E id \in 1..MaxId :
           /\ remove_sound(id)
           /\ live' = {e \in live : e.id # id}
    /\ UNCHANGED idleVars

Next ==
    \/ Tick
    \/ DbAddSound
    \/ DbStoreFingerprint
    \/ DbRemoveSound

Spec == Init /\ [][Next]_vars

-----------------------------------------------------------------------------
(* Claims about the store *)

\* C9: no two sounds share a filepath, and add_sound with a filepath that is
\* already registered returns the id of the existing sound, inserts no row and
\* leaves every stored field of that sound as it was.
C9_AddSoundIgnoresRegisteredPath ==
    /\ \A i, j \in DOMAIN sounds :
           sounds[i].filepath = sounds[j].filepath => i = j
    /\ ret.op = "add_sound" =>
         \A i \in DOMAIN ret.prior.sounds :
             ret.prior.sounds[i].filepath = ret.filepath =>
                 /\ ret.value = i
                 /\ DOMAIN sounds = DOMAIN ret.prior.sounds
                 /\ sounds[i] = ret.prior.sounds[i]

\* C9 witness: add_sound was called, later and with another description, with
\* the filepath of a sound that is registered.
C9_Witness ==
    /\ ret.op = "add_sound"
    /\ \E i \in DOMAIN ret.prior.sounds :
           /\ ret.prior.sounds[i].filepath = ret.filepath
           /\ ret.prior.sounds[i].date_added < now
    /\ Cardinality(DOMAIN sounds) = 2

\* C10: ids are positive, each newly assigned id is strictly greater than
\* every id assigned before, and so no id is ever assigned twice.
C10_IdsIncreaseAndAreNeverReused ==
    /\ \A k \in DOMAIN issued : issued[k].id > 0
    /\ \A k, l \in DOMAIN issued : k < l => issued[k].id < issued[l].id
    /\ \A i \in DOMAIN sounds : \E k \in DOMAIN issued : issued[k].id = i

\* C10 witness: the sound with the largest id was removed, leaving the table
\* empty, and its filepath has been added again and given a new id.
C10_Witness ==
    /\ ret.op = "add_sound"
    /\ ret.inserted
    /\ DOMAIN ret.prior.sounds = {}
    /\ \E k \in DOMAIN issued :
           /\ k < Len(issued)
           /\ issued[k].filepath = ret.filepath
           /\ issued[k].id \notin DOMAIN sounds

------------------------------------------------------------------------\* C11: after remove_sound(id), get_sound(id) and get_fingerprint(id) return
\* None, get_all_fingerprints has no entry for id, and every other sound and
\* fingerprint is as it was.
C11_RemoveSoundRemovesBothRows ==
    ret.op = "remove_sound" =>
        /\ get_sound(ret.id) = None
        /\ get_fingerprint(ret.id) = [ok |-> TRUE, some |-> FALSE]
        /\ \A k \in DOMAIN get_all_fingerprints :
               get_all_fingerprints[k].sound_id # ret.id
        /\ DOMAIN sounds = DOMAIN ret.prior.sounds \ {ret.id}
        /\ DOMAIN fingerprints = DOMAIN ret.prior.fingerprints \ {ret.id}
        /\ \A i \in DOMAIN sounds : sounds[i] = ret.prior.sounds[i]
        /\ \A i \in DOMAIN fingerprints : fingerprints[i] = ret.prior.fingerprints[i]

\* C11 witness: a sound that had a fingerprint was removed while another sound
\* and its fingerprint were in the store.
C11_Witness ==
    /\ ret.op = "remove_sound"
    /\ ret.id \in DOMAIN ret.prior.sounds
    /\ ret.id \in DOMAIN ret.prior.fingerprints
    /\ DOMAIN sounds # {}
    /\ DOMAIN fingerprints = DOMAIN sounds

\* a == b on every field of two fingerprints
VecEq(v, w) ==
    /\ Len(v) = Len(w)
    /\ \A i \in DOMAIN v : f64_eq(v[i], w[i])

FieldsEqual(a, b) ==
    /\ a.duration = b.duration
    /\ a.sample_rate = b.sample_rate
    /\ VecEq(a.mfcc_mean, b.mfcc_mean)
    /\ VecEq(a.mfcc_std, b.mfcc_std)
    /\ f64_eq(a.spectral_centroid, b.spectral_centroid)
    /\ f64_eq(a.spectral_bandwidth, b.spectral_bandwidth)
    /\ f64_eq(a.spectral_rolloff, b.spectral_rolloff)
    /\ f64_eq(a.rms_mean, b.rms_mean)
    /\ f64_eq(a.rms_std, b.rms_std)
    /\ f64_eq(a.zero_crossing_rate, b.zero_crossing_rate)
    /\ VecEq(a.chroma_mean, b.chroma_mean)

\* C12: after store_fingerprint(id, fp), get_fingerprint(id) returns one
\* fingerprint, equal field for field (and so in to_vector()) to fp, and the
\* fingerprint of every other id is as it was.
C12_StoreThenGetFingerprint ==
    (ret.op = "store_fingerprint" /\ ret.ok) =>
        /\ get_fingerprint(ret.id).ok
        /\ get_fingerprint(ret.id).some
        /\ FieldsEqual(get_fingerprint(ret.id).fp, ret.fp)
        /\ VecEq(to_vector(get_fingerprint(ret.id).fp), to_vector(ret.fp))
        /\ DOMAIN fingerprints = DOMAIN ret.prior.fingerprints \cup {ret.id}
        /\ \A i \in DOMAIN fingerprints \ {ret.id} :
               fingerprints[i] = ret.prior.fingerprints[i]

\* C13: count() is the number of filepaths added and not removed since;
\* add_sound of a new filepath makes get_sound(id) return that sound and
\* raises count() by one; remove_sound lowers it by one for an id that
\* exists and leaves it for one that does not.
C13_CountIsLiveFilepaths ==
    /\ count = Cardinality({e.filepath : e \in live})
    /\ (ret.op = "add_sound" /\ ret.inserted) =>
         /\ count = Cardinality(DOMAIN ret.prior.sounds) + 1
         /\ get_sound(ret.value) # None
         /\ get_sound(ret.value).id = ret.value
         /\ get_sound(ret.value).filepath = ret.filepath
         /\ << get_sound(ret.value).filename, get_sound(ret.value).duration,
               get_sound(ret.value).sample_rate, get_sound(ret.value).channels,
               get_sound(ret.value).format >> = ret.args
    /\ ret.op = "remove_sound" =>
         count = Cardinality(DOMAIN ret.prior.sounds)
                   - (IF ret.id \in DOMAIN ret.prior.sounds THEN 1 ELSE 0)

\* C13 witness: remove_sound was called with an id that is not in the store
\* (it was removed before) while another sound, with no fingerprint, is.
C13_Witness ==
    /\ ret.op = "remove_sound"
    /\ ret.id \notin DOMAIN ret.prior.sounds
    /\ \E k \in DOMAIN issued : issued[k].id = ret.id
    /\ count = 1
    /\ DOMAIN fingerprints = {}

-----
(* One find_best_segment call, step by step *)

SegPath == "/lib/a.wav"

\* the ingested sound the call is made for (its file may have changed since)
SegSound ==
    SoundRecord(1, SegPath, "a.wav", Time(16000, 8000), 8000, 1, "unknown", 0)

\* query fingerprints: no duration; windows of 3, 4, n_fft, n_fft + 1 and 4000
\* samples at 8000 Hz; a query longer than every file; and a query taken at
\* 16000 Hz whose duration is no whole number of samples at 8000 Hz
SegQueries ==
    { AudioFingerprint(Time(n, 8000), 8000, 2, 0, 0) :
        n \in {0, 3, 4, n_fft, n_fft + 1, 4000, 80000} }
      \cup { AudioFingerprint(Time(8001, 16000), 16000, 2, 0, 0) }

SegSamples ==
    { <<>>,
      <<Run(51, 1)>>,
      <<Run(204, 1)>>,
      <<Run(n_fft, 1)>>,
      <<Run(4000, 3), Run(4000, 2), Run(6000, 1), Run(2000, 4)>>,
      <<Run(20000, 2), Run(6625, 1)>>,
      <<Run(30000, 4), Run(10000, 1), Run(20000, 3)>>,
      <<Run(12000, 4)>> }

SegFiles ==
    {File(FALSE, 8000, <<>>)}
      \cup {File(TRUE, r, x) : r \in {8000, 16000}, x \in SegSamples}

SegInit ==
    /\ sounds = EmptyTable
    /\ fingerprints = EmptyTable
    /\ seq = 0
    /\ foreign_keys = FALSE
    /\ now = 0
    /\ issued = <<>>
    /\ ret = None
    /\ live = {}
    /\ QueryIdle
    /\ RestIdle
    /\ \E f \in SegFiles : files = [p \in {SegPath} |-> f]
    /\ \E q \in SegQueries : seg = [pc |-> "call", query_fp |-> q, sound |-> SegSound]

segFrame == <<sounds, fingerprints, seq, foreign_keys, now, issued, ret, files,
              query, pc, scan, scored, candidates, fine, results,
              live, api, threads, midi, calc, loading>>

\* lines 131-170: load, the two early returns, the window and hop sizes
SegEnter ==
    /\ seg.pc = "call"
    /\ LET e == Enter(seg.query_fp, load(seg.sound.filepath), seg.sound.duration)
       IN seg' = IF e.kind = "loop"
                 THEN [pc |-> "loop", query_fp |-> seg.query_fp, sound |-> seg.sound,
                       audio |-> e.audio, window |-> e.window, hop |-> e.hop,
                       st |-> LoopStart(seg.query_fp)]
                 ELSE [pc |-> "returned", query_fp |-> seg.query_fp,
                       sound |-> seg.sound, out |-> returned(e, seg.sound)]
    /\ UNCHANGED segFrame

\* lines 177-190: one window
SegWindow ==
    /\ seg.pc = "loop"
    /\ LoopGuard(seg.st, seg.audio, seg.window)
    /\ seg' = [seg EXCEPT !.st = LoopBody(seg.st, seg.query_fp, seg.audio,
                                           seg.window, seg.hop)]
    /\ UNCHANGED segFrame

\* lines 192-200: the loop is left and the best window returned
SegLeave ==
    /\ seg.pc = "loop"
    /\ ~LoopGuard(seg.st, seg.audio, seg.window)
    /\ seg' = [pc |-> "returned", query_fp |-> seg.query_fp, sound |-> seg.sound,
               out |-> returned(Leave(seg.st, seg.audio), seg.sound)]
    /\ UNCHANGED segFrame

SegNext ==
    \/ SegEnter
    \/ SegWindow
    \/ SegLeave

SpecSeg == SegInit /\ [][SegNext]_vars

\* C6: in the sliding-window branch at most max_windows = 50 windows are
\* fingerprinted and scored for one candidate.
C6_AtMostFiftyWindows ==
    seg.pc = "loop" => seg.st.windows <= max_windows

-----------------------------------------------------------------------------
(* One search query against a library *)

\* The kinds of library entry: the timbre of the stored fingerprint, whether
\* the sound row exists (a fingerprint row may have none where foreign keys
\* are not enforced), and the file now at the sound's path.
Kinds ==
    << [t |-> 1, row |-> TRUE,
        file |-> File(TRUE, 8000, <<Run(4000, 3), Run(4000, 2), Run(6000, 1), Run(2000, 4)>>)],
       [t |-> 2, row |-> TRUE,
        file |-> File(TRUE, 8000, <<Run(20000, 2), Run(6625, 1)>>)],
       [t |-> 3, row |-> TRUE,
        file |-> File(TRUE, 8000, <<Run(12000, 3), Run(4000, 1)>>)],
       [t |-> 1, row |-> TRUE, file |-> File(FALSE, 8000, <<>>)],
       [t |-> 2, row |-> FALSE, file |-> File(FALSE, 8000, <<>>)],
       [t |-> 1, row |-> TRUE, file |-> File(TRUE, 8000, <<Run(n_fft, 1)>>)],
       [t |-> 4, row |-> TRUE,
        file |-> File(TRUE, 16000, <<Run(8000, 4), Run(8000, 1)>>)],
       [t |-> 1, row |-> TRUE, file |-> File(TRUE, 8000, <<Run(51, 1)>>)] >>

PathOf(i) == "/lib/" \o ToString(i)

\* the duration and fingerprint recorded when the entry was ingested
IngestedDuration(k) == Time(16000, 8000)

IngestedFingerprint(k) ==
    LET f == TimbreFeatures(k.t)
    IN AudioFingerprint(IngestedDuration(k), 8000, f.m, f.c, f.e)

\* A library: entry i of ks has id i.
LibrarySounds(ks) ==
    [i \in {j \in 1..Len(ks) : ks[j].row} |->
        SoundRecord(i, PathOf(i), ToString(i), IngestedDuration(ks[i]), 8000, 1,
                    "unknown", 0)]

LibraryFingerprints(ks) ==
    [i \in 1..Len(ks) |-> to_json(IngestedFingerprint(ks[i]))]

\* the libraries of up to two entries, of every kind
SmallLibraries ==
    {<<>>} \cup {<<Kinds[a]>> : a \in DOMAIN Kinds}
           \cup {<<Kinds[a], Kinds[b]>> : a, b \in DOMAIN Kinds}

\* the libraries of n entries whose kinds follow each other at a stride
\* the kinds whose sound row exists
KindsWithRow == SelectSeq(Kinds, LAMBDA k : k.row)

Patterned(kinds, n, stride) ==
    [i \in 1..n |-> kinds[(((i - 1) * stride) % Len(kinds)) + 1]]

LargeLibraries ==
    {Patterned(Kinds, n, 3) : n \in {MaxSounds - 1, MaxSounds}}
      \cup {Patterned(KindsWithRow, n, 1) : n \in {MaxSounds - 1, MaxSounds}}

\* query fingerprints of timbre 1: no duration, 3 samples, 4 samples, half a
\* second, ten seconds (at 8000 Hz)
QueryFps == {AudioFingerprint(Time(n, 8000), 8000, 2, 0, 0) : n \in {0, 3, 4, 4000, 80000}}

\* the files of the caller: a tone, a clip shorter than one frame, a file that
\* does not decode and a recording at 50 Hz
ApiPaths == {<<"/", "A">>, <<"/", "s">>, <<"/", "x">>, <<"/", "p">>}

ApiFiles ==
    [p \in ApiPaths |->
        CASE p[2] = "A" -> File(TRUE, 8000, <<Run(16000, 1)>>)
          [] p[2] = "s" -> File(TRUE, 8000, <<Run(1000, 1)>>)
          [] p[2] = "x" -> File(FALSE, 0, <<>>)
          [] OTHER      -> File(TRUE, 50, <<Run(4096, 2)>>)]

\* the buffers and rates a caller of find_similar_from_samples passes
ApiSamples == {<<Run(4096, 2)>>, <<Run(1000, 2)>>}

ApiRates == {8000, 96000}

\* Fingerprinter::extract_from_file
extract_from_file(filepath) ==
    LET a == load(filepath)
    IN IF a.ok THEN extract(a.audio) ELSE [ok |-> FALSE]

\* the fingerprints of the queries of the API calls
ApiQueryFps ==
    LET audios == {decode(ApiFiles[p]).audio : p \in {q \in ApiPaths : ApiFiles[q].decodes}}
                    \cup {AudioData(b, r) : b \in ApiSamples, r \in ApiRates}
    IN {extract(a).fp : a \in {b \in audios : extract(b).ok}}

\* segment, worked out once for each query fingerprint and file of the model
SegmentTable ==
    [x \in (QueryFps \X Range([k \in DOMAIN Kinds |-> Kinds[k].file])
              \X Range([k \in DOMAIN Kinds |-> IngestedDuration(Kinds[k])]))
           \cup (ApiQueryFps \X Range(ApiFiles)
                   \X {decode(f).audio.duration :
                          f \in {g \in Range(ApiFiles) : g.decodes}}) |->
        segment(x[1], decode(x[2]), x[3])] @@ <<>>

\* SearchEngine::find_best_segment
find_best_segment(query_fp, filepath, sound) ==
    LET x == <<query_fp, files[filepath], sound.duration>>
    IN returned(IF filepath \in DOMAIN files /\ x \in DOMAIN SegmentTable
                THEN SegmentTable[x]
                ELSE segment(query_fp, load(filepath), sound.duration),
                sound)

\* a query fingerprint whose feature vector is all zeros (half a second long)
SilentQueryFps == {AudioFingerprint(Time(4000, 8000), 8000, 0, 0, 0)}

Ops == {"find_similar", "find_similar_with_segments"}

SearchInit ==
    /\ \E ks \in SmallLibraries \cup LargeLibraries :
          /\ sounds = LibrarySounds(ks)
          /\ fingerprints = LibraryFingerprints(ks)
          /\ files = [p \in {PathOf(i) : i \in 1..Len(ks)} |->
                         ks[CHOOSE i \in 1..Len(ks) : PathOf(i) = p].file]
          /\ seq = Len(ks)
          /\ issued = [i \in 1..Len(ks) |-> [id |-> i, filepath |-> PathOf(i)]]
          /\ live = {[id |-> i, filepath |-> PathOf(i)] :
                         i \in {j \in 1..Len(ks) : ks[j].row}}
          /\ \E op \in Ops, fp \in QueryFps \cup SilentQueryFps,
                threshold \in {0, 60, 95}, max_results \in {0, 1, MaxSounds + 1} :
                /\ Len(ks) > 2 =>
                     /\ fp \in QueryFps
                     /\ fp.duration.n \in {4000, 80000}
                     /\ threshold \in {0, 60}
                     /\ max_results \in {1, MaxSounds + 1}
                /\ query = [op |-> op, query_fp |-> fp, threshold |-> threshold,
                            max_results |-> max_results]
    /\ foreign_keys = FALSE
    /\ now = 0
    /\ ret = None
    /\ pc = "start"
    /\ scan = None
    /\ scored = <<>>
    /\ candidates = <<>>
    /\ fine = None
    /\ results = <<>>
    /\ seg = None
    /\ RestIdle

searchFrame == <<sounds, fingerprints, seq, foreign_keys, now, issued, ret, files,
                 query, seg, live, api, threads, midi, calc, loading>>

\* a parallel region over n items, no item taken yet
Region(n) == [lo |-> 0, hi |-> n, front |-> <<>>, back |-> <<>>]

\* let fingerprints = db.get_all_fingerprints()?
Scan ==
    /\ pc = "start"
    /\ pc' = "pass1"
    /\ scan' = [fps |-> get_all_fingerprints, par |-> Region(Len(get_all_fingerprints))]
    /\ UNCHANGED <<scored, candidates, fine, results>>
    /\ UNCHANGED searchFrame

\* pass 1: a worker takes the next item from the front
Pass1Front ==
    /\ pc = "pass1"
    /\ scan.par.lo < scan.par.hi
    /\ scan' = [scan EXCEPT !.par.lo = @ + 1,
                            !.par.front = @ \o coarse(query, scan.fps[scan.par.lo + 1])]
    /\ UNCHANGED <<pc, scored, candidates, fine, results>>
    /\ UNCHANGED searchFrame

\* pass 1: a worker takes the next item from the back
Pass1Back ==
    /\ pc = "pass1"
    /\ scan.par.lo < scan.par.hi
    /\ scan' = [scan EXCEPT !.par.hi = @ - 1,
                            !.par.back = @ \o coarse(query, scan.fps[scan.par.hi])]
    /\ UNCHANGED <<pc, scored, candidates, fine, results>>
    /\ UNCHANGED searchFrame

\* collect (which consumes the workers' buffers), sort, truncate
Rank ==
    /\ pc = "pass1"
    /\ scan.par.lo = scan.par.hi
    /\ scored' = rank(query, collect(scan.par.front, scan.par.back))
    /\ scan' = None
    /\ pc' = "lookup"
    /\ UNCHANGED <<candidates, fine, results>>
    /\ UNCHANGED searchFrame

\* find_similar: the sequential lookups, and the return
ReturnWholeFile ==
    /\ pc = "lookup"
    /\ query.op = "find_similar"
    /\ results' = whole_file_matches(scored)
    /\ pc' = "done"
    /\ UNCHANGED <<scan, scored, candidates, fine>>
    /\ UNCHANGED searchFrame

\* find_similar_with_segments: the sequential lookups
Lookup ==
    /\ pc = "lookup"
    /\ query.op = "find_similar_with_segments"
    /\ candidates' = lookup(scored)
    /\ fine' = Region(Len(lookup(scored)))
    /\ pc' = "pass2"
    /\ UNCHANGED <<scan, scored, results>>
    /\ UNCHANGED searchFrame

\* a pass 2 worker whose Err ends the query (the ? operator in place of .ok())
Pass2ItemPropagates(c, front) ==
    LET r == find_best_segment(query.query_fp, c.sound.filepath, c.sound)
        par == IF front THEN [fine EXCEPT !.lo = @ + 1, !.front = @ \o fine_keep(query, r)]
               ELSE [fine EXCEPT !.hi = @ - 1, !.back = @ \o fine_keep(query, r)]
    IN /\ r.kind # "hang"
       /\ fine' = IF r.kind \in {"panic", "err"} THEN fine ELSE par
       /\ pc' = IF r.kind = "panic" THEN "panicked"
                ELSE IF r.kind = "err" THEN "failed" ELSE pc

\* what a pass 2 worker does with candidate c: a call that panics takes the
\* query down with it, and a call that hangs never hands its item back
Pass2Item(c, front) ==
    LET r == find_best_segment(query.query_fp, c.sound.filepath, c.sound)
        par == IF front THEN [fine EXCEPT !.lo = @ + 1, !.front = @ \o fine_keep(query, r)]
               ELSE [fine EXCEPT !.hi = @ - 1, !.back = @ \o fine_keep(query, r)]
    IN /\ r.kind # "hang"
       /\ fine' = IF r.kind = "panic" THEN fine ELSE par
       /\ pc' = IF r.kind = "panic" THEN "panicked" ELSE pc

\* pass 2: a worker takes the next candidate from the front
Pass2Front ==
    /\ pc = "pass2"
    /\ fine.lo < fine.hi
    /\ Pass2Item(candidates[fine.lo + 1], TRUE)
    /\ UNCHANGED <<scan, scored, candidates, results>>
    /\ UNCHANGED searchFrame

\* pass 2: a worker takes the next candidate from the back
Pass2Back ==
    /\ pc = "pass2"
    /\ fine.lo < fine.hi
    /\ Pass2Item(candidates[fine.hi], FALSE)
    /\ UNCHANGED <<scan, scored, candidates, results>>
    /\ UNCHANGED searchFrame

\* collect, sort, truncate, return
ReturnSegments ==
    /\ pc = "pass2"
    /\ fine.lo = fine.hi
    /\ results' = finish(query, collect(fine.front, fine.back))
    /\ fine' = None
    /\ pc' = "done"
    /\ UNCHANGED <<scan, scored, candidates>>
    /\ UNCHANGED searchFrame

SearchNext ==
    \/ Scan
    \/ Pass1Front
    \/ Pass1Back
    \/ Rank
    \/ ReturnWholeFile
    \/ Lookup
    \/ Pass2Front
    \/ Pass2Back
    \/ ReturnSegments

SpecSearch == SearchInit /\ [][SearchNext]_vars

-----------------------------------------------------------------------------
(* Claims about the search *)

Segmented == query.op = "find_similar_with_segments"

\* the whole-file score of the stored fingerprint of a sound
CoarseScore(sound_id) ==
    similarity(query.query_fp, from_json(fingerprints[sound_id]).fp)

\* threshold * 0.8 <= score
Qualifies(sound_id) == 5 * CoarseScore(sound_id) >= 4 * query.threshold

ResultIds == {results[k].sound_id : k \in DOMAIN results}

CandidateIds == {candidates[k].sound.id : k \in DOMAIN candidates}

CandidateRank(sound_id) ==
    CHOOSE k \in DOMAIN candidates : candidates[k].sound.id = sound_id

Outcome(c) == find_best_segment(query.query_fp, c.sound.filepath, c.sound)

\* C1: every Match a query returns has 0 <= match_start <= match_end <=
\* file_duration.
C1_SegmentBounds ==
    pc = "done" =>
        \A k \in DOMAIN results :
            /\ TimeLE(TimeZero, results[k].match_start)
            /\ TimeLE(results[k].match_start, results[k].match_end)
            /\ TimeLE(results[k].match_end, results[k].file_duration)

\* C1 witness: the four cases of find_best_segment have each returned a Match:
\* here the sliding-window one, with a best window that does not start at 0.
C1_Witness ==
    /\ pc = "done"
    /\ Segmented
    /\ \E k \in DOMAIN results : results[k].match_start.n > 0

\* C2: every Match of find_similar_with_segments belongs to a sound whose
\* whole-file score is >= 0.8 * T and has a refined score >= T.
C2_CoarseAndRefinedThresholds ==
    (pc = "done" /\ Segmented) =>
        \A k \in DOMAIN results :
            /\ Qualifies(results[k].sound_id)
            /\ results[k].score >= query.threshold

\* C2 witness: a Match whose sound passed the first pass only by the slack: its
\* whole-file score is below T.
C2_Witness ==
    /\ pc = "done"
    /\ Segmented
    /\ \E k \in DOMAIN results : CoarseScore(results[k].sound_id) < query.threshold

\* C3: the Matches are in non-increasing order of score, and Matches of equal
\* score are in the order they were first seen in: the store's order (by
\* sound_id) in find_similar, the candidates' order in find_similar_with_segments.
C3_DescendingStable ==
    pc = "done" =>
        \A i, j \in DOMAIN results :
            i < j =>
                /\ results[i].score >= results[j].score
                /\ results[i].score = results[j].score =>
                     IF Segmented
                     THEN CandidateRank(results[i].sound_id)
                            < CandidateRank(results[j].sound_id)
                     ELSE results[i].sound_id < results[j].sound_id

\* C3 witness: two Matches of equal score, below a Match of a higher score
\* that the store enumerates after them.
C3_Witness ==
    /\ pc = "done"
    /\ \E i, j \in DOMAIN results :
           /\ i < j
           /\ results[i].score = results[j].score
    /\ \E i, j \in DOMAIN results :
           /\ i < j
           /\ results[i].score > results[j].score
           /\ results[i].sound_id > results[j].sound_id

\* find_similar_with_segments run by one thread: each parallel region is a
\* loop over its input, in order
RECURSIVE CoarseInOrder(_, _)
CoarseInOrder(q, fps) ==
    IF fps = <<>> THEN <<>> ELSE coarse(q, Head(fps)) \o CoarseInOrder(q, Tail(fps))

RECURSIVE FineInOrder(_, _)
FineInOrder(q, cs) ==
    IF cs = <<>> THEN <<>>
    ELSE fine_keep(q, find_best_segment(q.query_fp, Head(cs).sound.filepath,
                                        Head(cs).sound))
           \o FineInOrder(q, Tail(cs))

SingleThreaded(q) ==
    finish(q, FineInOrder(q, lookup(rank(q, CoarseInOrder(q, get_all_fingerprints)))))

\* C4: whatever the interleaving of the workers of the two passes,
\* find_similar_with_segments returns the list a single thread would.
C4_SameAsSingleThreaded ==
    (pc = "done" /\ Segmented) => results = SingleThreaded(query)

\* C4 witness: a query returned two Matches, in another order than the
\* store's.
C4_Witness ==
    /\ pc = "done"
    /\ Segmented
    /\ Len(results) >= 2
    /\ results[1].sound_id > results[2].sound_id

\* C5: find_similar returns at most max_results Matches, each with its
\* fingerprint's score and that score >= T, and no fingerprint whose sound
\* exists and whose score is >= T is left out while a Match scores lower.
C5_TopMatches ==
    (pc = "done" /\ ~Segmented) =>
        /\ Len(results) <= query.max_results
        /\ \A k \in DOMAIN results :
               /\ results[k].score = CoarseScore(results[k].sound_id)
               /\ results[k].score >= query.threshold
        /\ \A id \in (DOMAIN fingerprints \cap DOMAIN sounds) \ ResultIds :
               CoarseScore(id) >= query.threshold =>
                   \A k \in DOMAIN results : results[k].score >= CoarseScore(id)

\* C5 witness: max_results Matches were returned, and a fingerprint with a
\* score >= T, stored before one of them, was left out.
C5_Witness ==
    /\ pc = "done"
    /\ ~Segmented
    /\ Len(results) = query.max_results
    /\ \E id \in (DOMAIN fingerprints \cap DOMAIN sounds) \ ResultIds :
           /\ CoarseScore(id) >= query.threshold
           /\ \E k \in DOMAIN results : id < results[k].sound_id

\* C7: at most 20 candidates reach the second pass; each has a whole-file
\* score >= 0.8 * T; and a fingerprint that has such a score and a sound is
\* left out only when 20 other fingerprints score at least as high.
C7_AtMostTwentyCandidates ==
    (pc \in {"pass2", "done"} /\ Segmented) =>
        LET coarse_score == [id \in DOMAIN fingerprints |-> CoarseScore(id)] @@ <<>>
            qualifies(id) == 5 * coarse_score[id] >= 4 * query.threshold
        IN /\ Len(candidates) <= CoarseCap
           /\ \A k \in DOMAIN candidates :
                  /\ candidates[k].score = coarse_score[candidates[k].sound.id]
                  /\ qualifies(candidates[k].sound.id)
           /\ \A id \in (DOMAIN fingerprints \cap DOMAIN sounds) \ CandidateIds :
                  qualifies(id) =>
                      /\ \A k \in DOMAIN candidates :
                             candidates[k].score >= coarse_score[id]
                      /\ Cardinality({j \in DOMAIN fingerprints \ {id} :
                                        coarse_score[j] >= coarse_score[id]}) >= CoarseCap

\* C7 witness: more than 20 fingerprints score >= 0.8 * T, 20 candidates
\* reach the second pass and one that has a sound is left out.
C7_Witness ==
    /\ pc = "pass2"
    /\ Len(candidates) = CoarseCap
    /\ \E id \in (DOMAIN fingerprints \cap DOMAIN sounds) \ CandidateIds :
           Qualifies(id)

\* the candidates for which find_best_segment does not return Err
RECURSIVE WithoutErr(_)
WithoutErr(cs) ==
    IF cs = <<>> THEN <<>>
    ELSE (IF Outcome(Head(cs)).kind = "err" THEN <<>> ELSE <<Head(cs)>>)
           \o WithoutErr(Tail(cs))

\* the Match of each candidate whose score meets the threshold
RECURSIVE MatchesOf(_)
MatchesOf(cs) ==
    IF cs = <<>> THEN <<>>
    ELSE (IF Outcome(Head(cs)).m.score >= query.threshold
          THEN <<Outcome(Head(cs)).m>> ELSE <<>>)
           \o MatchesOf(Tail(cs))

\* C8: when find_best_segment returns Err for a candidate, the query still
\* returns Ok, with the Matches the other candidates give.
C8_FailedCandidateDropped ==
    (pc \in {"done", "failed"} /\ Segmented) =>
        /\ pc = "done"
        /\ results = finish(query, MatchesOf(WithoutErr(candidates)))

\* C8 witness: a query returned Matches although one candidate's file did not
\* decode and the whole-file extraction of another failed.
C8_Witness ==
    /\ pc = "done"
    /\ Segmented
    /\ results # <<>>
    /\ \E k \in DOMAIN candidates : ~load(candidates[k].sound.filepath).ok
    /\ \E k \in DOMAIN candidates :
           /\ load(candidates[k].sound.filepath).ok
           /\ Outcome(candidates[k]).kind = "err"

-----------------------------------------------------------------------------
(* The methods of AudioFingerprint, called on any two fingerprints *)

\* the fingerprints the extractor gives for a buffer of each timbre
ExtractedFps ==
    {extract(AudioData(<<Run(4000, t)>>, 8000)).fp : t \in Timbres}

\* fingerprints a caller builds: the fields are public and take any value
BuiltFps ==
    {AudioFingerprint(Time(16000, 8000), 8000, m, c, e) :
        m \in {0 - 2, 0, 2, NaN}, c \in {0, SpectralScale, NaN}, e \in {0, 2}}

\* fingerprints whose Vec fields have other lengths than 13, 13 and 12
OddFps ==
    {[AudioFingerprint(Time(16000, 8000), 8000, 2, 0, e) EXCEPT !.mfcc_mean = v] :
        e \in {0, 2}, v \in {<<>>, <<2>>, <<0, 0, 0, 0, 0>>}}
      \cup {[AudioFingerprint(Time(16000, 8000), 8000, 2, 0, 0)
                EXCEPT !.chroma_mean = Zeros(n_chroma + 1)]}

SampleFps == ExtractedFps \cup BuiltFps \cup OddFps

FpInit ==
    /\ sounds = EmptyTable
    /\ fingerprints = EmptyTable
    /\ seq = 0
    /\ foreign_keys = FALSE
    /\ now = 0
    /\ issued = <<>>
    /\ ret = None
    /\ live = {}
    /\ files = NoFiles
    /\ QueryIdle
    /\ seg = None
    /\ api = None
    /\ threads = None
    /\ midi = None
    /\ loading = None
    /\ \E a \in SampleFps, b \in SampleFps :
           calc = [pc |-> "args", self |-> a, other |-> b]

fpFrame == <<sounds, fingerprints, seq, foreign_keys, now, issued, ret, files,
             query, pc, scan, scored, candidates, fine, results, seg,
             live, api, threads, midi, loading>>

\* self.to_vector()
CallToVector ==
    /\ calc.pc = "args"
    /\ calc' = [calc EXCEPT !.pc = "to_vector", !.other = calc.self]
                 @@ [value |-> to_vector(calc.self)]
    /\ UNCHANGED fpFrame

\* self.similarity(&other)
CallSimilarity ==
    /\ calc.pc = "args"
    /\ calc' = [calc EXCEPT !.pc = "similarity"]
                 @@ [value |-> similarity(calc.self, calc.other)]
    /\ UNCHANGED fpFrame

\* self written by store_fingerprint and read back by get_fingerprint, then
\* to_vector() of what was read
CallReadBack ==
    /\ calc.pc = "args"
    /\ from_json(to_json(calc.self)).ok
    /\ calc' = [calc EXCEPT !.pc = "read_back", !.other = calc.self,
                            !.self = from_json(to_json(calc.self)).fp]
                 @@ [value |-> to_vector(from_json(to_json(calc.self)).fp)]
    /\ UNCHANGED fpFrame

FpNext ==
    \/ CallToVector
    \/ CallSimilarity
    \/ CallReadBack

SpecFp == FpInit /\ [][FpNext]_vars

\* every component of the vector is 0
AllZero(fp) == \A i \in DOMAIN to_vector(fp) : to_vector(fp)[i] = 0

\* no component of the vector is NaN
AllFinite(fp) == \A i \in DOMAIN to_vector(fp) : ~is_nan(to_vector(fp)[i])

\* C17: similarity(A, B) is never NaN and lies in [0, 100]; it is 0 when the
\* two vectors differ in length and 0 when one of them is all zeros.
C17_SimilarityRange ==
    calc.pc = "similarity" =>
        /\ ~is_nan(calc.value)
        /\ 0 <= calc.value
        /\ calc.value <= 100
        /\ Len(to_vector(calc.self)) # Len(to_vector(calc.other)) => calc.value = 0
        /\ (AllZero(calc.self) \/ AllZero(calc.other)) => calc.value = 0

\* C17 witness: similarity was called on two vectors of equal length, neither
\* all zeros, one of which holds a NaN.
C17_Witness ==
    /\ calc.pc = "similarity"
    /\ Len(to_vector(calc.self)) = Len(to_vector(calc.other))
    /\ ~AllFinite(calc.self)
    /\ AllFinite(calc.other)
    /\ ~AllZero(calc.other)

\* C18 as stated: for any fingerprint F whose vector is not all zeros,
\* similarity(F, F) is 100.
C18_SelfSimilarity ==
    (calc.pc = "similarity" /\ calc.self = calc.other /\ ~AllZero(calc.self)) =>
        calc.value = MaxScore

\* C18: for any fingerprint F whose vector holds no NaN and is not all zeros,
\* similarity(F, F) is 100.
C18_SelfSimilarityFinite ==
    (calc.pc = "similarity" /\ calc.self = calc.other
       /\ AllFinite(calc.self) /\ ~AllZero(calc.self)) =>
        calc.value = MaxScore

\* C18 witness: similarity(F, F) was computed for an F with two features that
\* are not zero.
C18_Witness ==
    /\ calc.pc = "similarity"
    /\ calc.self = calc.other
    /\ AllFinite(calc.self)
    /\ calc.self.mfcc_mean[1] # 0
    /\ calc.self.spectral_centroid # 0

\* C19: to_vector() has 13 + 13 + 3 + 3 + 12 = 44 elements, in the order
\* mfcc_mean, mfcc_std, centroid, bandwidth, rolloff, rms_mean, rms_std, zcr,
\* chroma_mean, whether the fingerprint was extracted, built or read back.
C19_VectorHas44Elements ==
    calc.pc \in {"to_vector", "read_back"} =>
        /\ Len(calc.value) = 2 * n_mfcc + 3 + 3 + n_chroma
        /\ SubSeq(calc.value, 1, n_mfcc) = calc.self.mfcc_mean
        /\ SubSeq(calc.value, n_mfcc + 1, 2 * n_mfcc) = calc.self.mfcc_std
        /\ SubSeq(calc.value, 2 * n_mfcc + 7, 2 * n_mfcc + 6 + n_chroma)
             = calc.self.chroma_mean

-----------------------------------------------------------------------------
(* api.rs: the functions exposed to the caller *)

(* A path is kept as its characters.  The tables sounds and fingerprints     *)
(* describe the database file at db_path, which exists whether or not the   *)
(* process has opened it.                                                    *)

NotInitialized == "Database not initialized"

\* Path::file_name: the characters behind the last separator, and the whole
\* path (unwrap_or_else) when there are none
file_name(filepath) ==
    LET slashes == {i \in DOMAIN filepath : filepath[i] = "/"}
        from == MaxOf(slashes \cup {0}) + 1
    IN IF from > Len(filepath) THEN filepath
       ELSE SubSeq(filepath, from, Len(filepath))

\* SQLite's LIKE folds the case of ASCII letters
Lower(c) == IF c = "A" THEN "a" ELSE c

\* the code point of a character (the BINARY collation of ORDER BY filename)
Code(c) ==
    CASE c = "/" -> 47 [] c = "A" -> 65 [] c = "_" -> 95 [] c = "a" -> 97
      [] c = "p" -> 112 [] c = "s" -> 115 [] c = "x" -> 120 [] OTHER -> 122

\* filename LIKE '%' || query || '%', for a query without '%': the query
\* occurs in the name, '_' standing for any one character
like(filename, q) ==
    \E i \in 0..(Len(filename) - Len(q)) :
        \A k \in 1..Len(q) :
            q[k] = "_" \/ Lower(filename[i + k]) = Lower(q[k])

RECURSIVE NameLess(_, _)
NameLess(a, b) ==
    IF b = <<>> THEN FALSE
    ELSE IF a = <<>> THEN TRUE
    ELSE IF Code(Head(a)) # Code(Head(b)) THEN Code(Head(a)) < Code(Head(b))
    ELSE NameLess(Tail(a), Tail(b))

\* s lists every row of ids once
Lists(s, ids) ==
    /\ Len(s) = Cardinality(ids)
    /\ {s[i].id : i \in DOMAIN s} = ids

Listings(ids) ==
    {s \in [1..Cardinality(ids) -> {sounds[i] : i \in ids}] : Lists(s, ids)}

\* PaletteDatabase::get_all_sounds: ORDER BY date_added DESC, rows of one
\* date in whatever order the engine produces them
get_all_sounds ==
    {s \in Listings(DOMAIN sounds) :
        \A i, j \in DOMAIN s : i < j => s[i].date_added >= s[j].date_added}

\* PaletteDatabase::search: WHERE filename LIKE ?1 ORDER BY filename
search(q) ==
    {s \in Listings({i \in DOMAIN sounds : like(sounds[i].filename, q)}) :
        \A i, j \in DOMAIN s : i < j => ~NameLess(s[j].filename, s[i].filename)}

(* The DATABASE singleton.  api.db: the Option holds a PaletteDatabase;      *)
(* api.poisoned: a call panicked while it held the lock; api.pc: where the   *)
(* call that holds the lock is; api.ret: the last return.  api.inited and    *)
(* api.refused are history: an init_database has returned Ok, a call has    *)
(* been refused for want of one.                                             *)

\* no call holds the lock
ApiIdle == [at |-> "idle"]

StoreBacked ==
    {"add_sound", "get_all_sounds", "get_sound_count", "search_sounds", "find_similar",
     "find_similar_with_segments", "find_similar_from_samples", "remove_sound"}

ApiReturn(op, outcome, err, value) ==
    [op |-> op, outcome |-> outcome, err |-> err, value |-> value,
     inited |-> api.inited, prior |-> Tables, prior_seq |-> seq]

\* guard.as_ref() on a database that is opened on demand
db_ref_opens == [ok |-> TRUE]

\* guard.as_ref().ok_or("Database not initialized")
db_ref ==
    IF api.db THEN [ok |-> TRUE] ELSE [ok |-> FALSE, err |-> NotInitialized]

\* get_db().lock().unwrap() and the guard: what a call returns before it
\* reaches the store, if it does not reach it
entry(op) ==
    IF api.poisoned THEN [ok |-> FALSE, ret |-> ApiReturn(op, "panic", "", None)]
    ELSE IF ~db_ref.ok THEN [ok |-> FALSE, ret |-> ApiReturn(op, "err", db_ref.err, None)]
    ELSE [ok |-> TRUE]

\* the call returns r without having changed the store
returns(r) ==
    /\ api' = [api EXCEPT !.ret = r,
                          !.pc = ApiIdle,
                          !.refused = @ \/ (r.outcome = "err" /\ r.err = NotInitialized)]
    /\ UNCHANGED <<storeVars, live>>

ApiInit ==
    /\ StoreInit
    /\ files = ApiFiles
    /\ QueryIdle
    /\ seg = None
    /\ api = [db |-> FALSE, inited |-> FALSE, refused |-> FALSE, poisoned |-> FALSE,
              pc |-> ApiIdle,
              ret |-> [op |-> "none", outcome |-> "ok", err |-> "", value |-> None,
                       inited |-> FALSE, prior |-> [sounds |-> EmptyTable,
                                                    fingerprints |-> EmptyTable],
                       prior_seq |-> 0]]
    /\ threads = None
    /\ midi = None
    /\ calc = None
    /\ loading = None

apiFrame == <<files, query, pc, scan, scored, candidates, fine, results, seg,
              threads, midi, calc, loading>>

\* init_database: open first, which fails on a path that cannot be opened,
\* then lock and replace whatever the Option held
ApiInitDatabase ==
    /\ api.pc.at = "idle"
    /\ \E opens \in BOOLEAN :
           IF ~opens
           THEN returns(ApiReturn("init_database", "err", "Database error", None))
           ELSE IF api.poisoned
           THEN returns(ApiReturn("init_database", "panic", "", None))
           ELSE /\ api' = [api EXCEPT !.db = TRUE, !.inited = TRUE,
                                      !.ret = ApiReturn("init_database", "ok", "", None)]
                /\ UNCHANGED <<storeVars, live>>
    /\ UNCHANGED apiFrame

\* add_sound, lines 27-45: lock, guard, load, db.add_sound
ApiAddSound ==
    /\ api.pc.at = "idle"
    /\ \E filepath \in ApiPaths :
           LET e == entry("add_sound")
               a == load(filepath)
           IN IF ~e.ok THEN returns(e.ret)
              ELSE IF ~a.ok
              THEN returns(ApiReturn("add_sound", "err", "Audio loading failed", None))
              ELSE /\ db_add_sound(filepath, file_name(filepath), a.audio.duration,
                                   a.audio.sample_rate, 1, "unknown")
                   /\ live' = live \cup {[id |-> ret'.value, filepath |-> filepath]}
                   /\ api' = [api EXCEPT !.pc = [at |-> "extract", audio |-> a.audio,
                                                 sound_id |-> ret'.value,
                                                 entered |-> ApiReturn("add_sound", "ok",
                                                                       "", ret'.value)]]
    /\ UNCHANGED apiFrame

\* add_sound, lines 47-52: extract, store_fingerprint, return; the lock is
\* held from line 28 on, so no other call comes between the two steps
ApiAddSoundStore ==
    /\ api.pc.at = "extract"
    /\ LET r == extract(api.pc.audio)
       IN IF ~r.ok
          THEN returns([api.pc.entered EXCEPT !.outcome = "err",
                                              !.err = "Fingerprint extraction failed",
                                              !.value = None])
          ELSE /\ store_fingerprint(api.pc.sound_id, r.fp)
               /\ api' = [api EXCEPT
                            !.pc = ApiIdle,
                            !.ret = IF ret'.ok THEN api.pc.entered
                                    ELSE [api.pc.entered EXCEPT !.outcome = "err",
                                                                !.err = "Database error",
                                                                !.value = None]]
               /\ UNCHANGED live
    /\ UNCHANGED apiFrame

\* a call that reads the store and returns one of the values in vs
reads(op, vs) ==
    /\ LET e == entry(op)
       IN IF ~e.ok THEN returns(e.ret)
          ELSE \E v \in vs : returns(ApiReturn(op, "ok", "", v))
    /\ UNCHANGED apiFrame

ApiGetAllSounds ==
    /\ api.pc.at = "idle"
    /\ reads("get_all_sounds", get_all_sounds)

ApiGetSoundCount ==
    /\ api.pc.at = "idle"
    /\ reads("get_sound_count", {count})

ApiSearchSounds ==
    /\ api.pc.at = "idle"
    /\ \E q \in {<<"a">>, <<"_", "_">>} : reads("search_sounds", search(q))

\* SearchEngine::find_similar as the call returns it
whole_file_outcome(q) ==
    [kind |-> "ok",
     value |-> whole_file_matches(rank(q, CoarseInOrder(q, get_all_fingerprints)))]

\* the outcome of the second pass over the candidates cs: the Match list, or
\* the panic of a worker, which the parallel region hands on to the caller
RECURSIVE second_pass(_, _, _)
second_pass_item(q, cs, kept, r) ==
    IF r.kind \in {"hang", "panic"} THEN [kind |-> r.kind]
    ELSE second_pass(q, Tail(cs), kept \o fine_keep(q, r))

second_pass(q, cs, kept) ==
    IF cs = <<>> THEN [kind |-> "ok", value |-> finish(q, kept)]
    ELSE second_pass_item(q, cs, kept,
                          find_best_segment(q.query_fp, Head(cs).sound.filepath,
                                            Head(cs).sound))

\* SearchEngine::find_similar_with_segments as the call returns it
segments_outcome(q) ==
    second_pass(q, lookup(rank(q, CoarseInOrder(q, get_all_fingerprints))), <<>>)

search_outcome(q) ==
    IF q.op = "find_similar" THEN whole_file_outcome(q) ELSE segments_outcome(q)

\* the end of a query whose search came to o: a panic poisons the lock, and
\* a search that hangs keeps it
answers(op, o) ==
    IF o.kind = "ok" THEN returns(ApiReturn(op, "ok", "", o.value))
    ELSE /\ api' = [api EXCEPT
                      !.ret = ApiReturn(op, o.kind, "", None),
                      !.poisoned = @ \/ o.kind = "panic",
                      !.pc = IF o.kind = "hang" THEN [at |-> "hung"] ELSE ApiIdle]
         /\ UNCHANGED <<storeVars, live>>

\* a query: lock, guard, fingerprint the query, search
queries(op, engine_op, query_fp, threshold, max_results) ==
    /\ IF ~entry(op).ok THEN returns(entry(op).ret)
       ELSE IF ~query_fp.ok
       THEN returns(ApiReturn(op, "err", "Fingerprint extraction failed", None))
       ELSE answers(op, search_outcome([op |-> engine_op, query_fp |-> query_fp.fp,
                                        threshold |-> threshold,
                                        max_results |-> max_results]))
    /\ UNCHANGED apiFrame

ApiFindSimilar ==
    /\ api.pc.at = "idle"
    /\ \E query_path \in {<<"/", "A">>, <<"/", "x">>} :
        queries("find_similar", "find_similar", extract_from_file(query_path), 60, 1)

ApiFindSimilarWithSegments ==
    /\ api.pc.at = "idle"
    /\ \E query_path \in {<<"/", "A">>, <<"/", "s">>} :
        queries("find_similar_with_segments", "find_similar_with_segments",
                extract_from_file(query_path), 60, MaxId)

ApiFindSimilarFromSamples ==
    /\ api.pc.at = "idle"
    /\ \E samples \in ApiSamples, sample_rate \in ApiRates :
        \* (the buffer that is too short is passed at one rate only)
        (SamplesLen(samples) < n_fft => sample_rate = 8000) /\
        queries("find_similar_from_samples", "find_similar_with_segments",
                extract_from_samples(samples, sample_rate), 60, MaxId)

\* remove_sound: lock, guard, db.remove_sound
ApiRemoveSound ==
    /\ api.pc.at = "idle"
    /\ \E sound_id \in 1..MaxId :
           LET e == entry("remove_sound")
           IN IF ~e.ok THEN returns(e.ret)
              ELSE /\ remove_sound(sound_id)
                   /\ live' = {x \in live : x.id # sound_id}
                   /\ api' = [api EXCEPT !.ret = ApiReturn("remove_sound", "ok", "", None)]
    /\ UNCHANGED apiFrame

ApiNext ==
    \/ ApiInitDatabase
    \/ ApiAddSound
    \/ ApiAddSoundStore
    \/ ApiGetAllSounds
    \/ ApiGetSoundCount
    \/ ApiSearchSounds
    \/ ApiFindSimilar
    \/ ApiFindSimilarWithSegments
    \/ ApiFindSimilarFromSamples
    \/ ApiRemoveSound

SpecApi == ApiInit /\ [][ApiNext]_vars

\* C14: a store-backed call made before any init_database has succeeded
\* returns the error "Database not initialized" and leaves the store, its id
\* sequence and the singleton as they were; a call made after one has
\* succeeded never returns that error.
C14_NotInitialized ==
    api.ret.op \in StoreBacked =>
        IF api.ret.inited
        THEN ~(api.ret.outcome = "err" /\ api.ret.err = NotInitialized)
        ELSE /\ api.ret.outcome = "err"
             /\ api.ret.err = NotInitialized
             /\ Tables = api.ret.prior
             /\ seq = api.ret.prior_seq
             /\ ~api.db

\* C14 witness: a call was refused before the first init_database, and a
\* later add_sound, after one, has stored a sound and returned its id.
C14_Witness ==
    /\ api.refused
    /\ api.ret.inited
    /\ api.ret.op = "add_sound"
    /\ api.ret.outcome = "ok"
    /\ api.ret.value \in DOMAIN sounds

\* C16: whenever no API call is in progress, every sound has a fingerprint row
\* and every fingerprint row belongs to a sound.
C16_SoundsAndFingerprintsOneToOne ==
    api.pc.at = "idle" => DOMAIN sounds = DOMAIN fingerprints

-----------------------------------------------------------------------------
(* api.rs and search/mod.rs: who uses the connection *)

(* Threads call the API at any time.  threads.lock is the thread that holds  *)
(* the DATABASE mutex (0: nobody); threads.call[t] is where the call of      *)
(* thread t is; threads.conn is the set of users that are inside a           *)
(* statement prepared on the connection, a user being a calling thread       *)
(* (worker 0) or a worker of the pool running a closure of that thread's     *)
(* parallel region.                                                          *)

Threads == {1, 2}

Workers == {1, 2}

LockOps == {"init_database", "get_sound_count", "find_similar",
            "find_similar_with_segments"}

\* a thread between two calls, and the function it called last
IdleCall(last) == [pc |-> "idle", last |-> last]

User(t, w) == [thread |-> t, worker |-> w]

\* a mutex that admits every thread
may_lock_any(t) == TRUE

\* Mutex::lock returns when no thread holds the mutex
may_lock(t) == threads.lock = 0

\* the store accesses of a closure of a parallel region: query_fp.similarity(fp)
\* in pass 1, find_best_segment (file I/O only) in pass 2
closure_uses(t, w) == {}

\* the statement on the connection a call that is at pc makes next
statement(c) ==
    CASE c.pc = "guard" /\ c.op = "init_database" -> "replace"
      [] c.pc = "guard" /\ c.op = "get_sound_count" -> "count"
      [] c.pc = "guard" -> "get_all_fingerprints"
      [] c.pc = "lookup" /\ c.lookups > 0 -> "get_sound"
      [] OTHER -> "none"

\* where the call is when the statement it was in has returned
after(c) ==
    CASE c.pc = "in_get_all_fingerprints" ->
             [pc |-> "pass1", op |-> c.op,
              region |-> [todo |-> Len(get_all_fingerprints), busy |-> {}]]
      [] c.pc = "in_get_sound" -> [c EXCEPT !.pc = "lookup", !.lookups = @ - 1]
      [] OTHER -> [pc |-> "return", op |-> c.op]

LockInit ==
    /\ \E ks \in {<<>>, <<Kinds[1], Kinds[2]>>, <<Kinds[3], Kinds[5]>>} :
          /\ sounds = LibrarySounds(ks)
          /\ fingerprints = LibraryFingerprints(ks)
          /\ seq = Len(ks)
          /\ issued = [i \in 1..Len(ks) |-> [id |-> i, filepath |-> PathOf(i)]]
          /\ live = {[id |-> i, filepath |-> PathOf(i)] :
                         i \in {j \in 1..Len(ks) : ks[j].row}}
    /\ foreign_keys = FALSE
    /\ now = 0
    /\ ret = None
    /\ files = NoFiles
    /\ QueryIdle
    /\ seg = None
    /\ api = None
    /\ threads = [lock |-> 0, call |-> [t \in Threads |-> IdleCall("none")], conn |-> {}]
    /\ midi = None
    /\ calc = None
    /\ loading = None

lockFrame == <<sounds, fingerprints, seq, foreign_keys, now, issued, ret, files,
               query, pc, scan, scored, candidates, fine, results, seg,
               live, api, midi, calc, loading>>

\* a thread calls an API function: init_database opens its own connection
\* first, the others go straight to get_db().lock()
LockCall ==
    /\ \E t \in Threads, op \in LockOps :
           /\ threads.call[t].pc = "idle"
           /\ threads' = [threads EXCEPT !.call[t] = [pc |-> "lock", op |-> op]]
    /\ UNCHANGED lockFrame

\* get_db().lock().unwrap() returns
LockAcquire ==
    /\ \E t \in Threads :
           /\ threads.call[t].pc = "lock"
           /\ may_lock(t)
           /\ threads' = [threads EXCEPT !.lock = t, !.call[t].pc = "guard"]
    /\ UNCHANGED lockFrame

\* the calling thread enters a statement on the connection
LockBegin ==
    /\ \E t \in Threads :
           /\ statement(threads.call[t]) # "none"
           /\ threads' = [threads EXCEPT
                            !.call[t].pc = "in_" \o statement(threads.call[t]),
                            !.conn = @ \cup {User(t, 0)}]
    /\ UNCHANGED lockFrame

\* the statement returns
LockEnd ==
    /\ \E t \in Threads :
           /\ threads.call[t].pc \in {"in_replace", "in_count", "in_get_all_fingerprints",
                                      "in_get_sound"}
           /\ threads' = [threads EXCEPT !.call[t] = after(threads.call[t]),
                                         !.conn = @ \ {User(t, 0)}]
    /\ UNCHANGED lockFrame

\* a worker of the pool takes the next item of the region and runs the closure
LockTake ==
    /\ \E t \in Threads, w \in Workers :
           /\ threads.call[t].pc \in {"pass1", "pass2"}
           /\ threads.call[t].region.todo > 0
           /\ w \notin threads.call[t].region.busy
           /\ threads' = [threads EXCEPT
                            !.call[t].region.todo = @ - 1,
                            !.call[t].region.busy = @ \cup {w},
                            !.conn = @ \cup closure_uses(t, w)]
    /\ UNCHANGED lockFrame

\* the closure returns
LockDone ==
    /\ \E t \in Threads, w \in Workers :
           /\ threads.call[t].pc \in {"pass1", "pass2"}
           /\ w \in threads.call[t].region.busy
           /\ threads' = [threads EXCEPT
                            !.call[t].region.busy = @ \ {w},
                            !.conn = @ \ closure_uses(t, w)]
    /\ UNCHANGED lockFrame

\* collect() returns to the calling thread: after pass 1 the scores decide how
\* many ids are looked up, after pass 2 the call returns
LockJoin ==
    /\ \E t \in Threads :
           LET c == threads.call[t]
           IN /\ c.pc \in {"pass1", "pass2"}
              /\ c.region.todo = 0
              /\ c.region.busy = {}
              /\ IF c.pc = "pass2"
                 THEN threads' = [threads EXCEPT !.call[t] = [pc |-> "return", op |-> c.op]]
                 ELSE \E k \in 0..Len(get_all_fingerprints) :
                          threads' = [threads EXCEPT
                                        !.call[t] = [pc |-> "lookup", op |-> c.op,
                                                     lookups |-> k, found |-> k]]
    /\ UNCHANGED lockFrame

\* the lookups are over: find_similar returns, find_similar_with_segments
\* starts the second region over the candidates
LockLookedUp ==
    /\ \E t \in Threads :
           LET c == threads.call[t]
           IN /\ c.pc = "lookup"
              /\ c.lookups = 0
              /\ threads' = [threads EXCEPT
                               !.call[t] =
                                   IF c.op = "find_similar"
                                   THEN [pc |-> "return", op |-> c.op]
                                   ELSE [pc |-> "pass2", op |-> c.op,
                                         region |-> [todo |-> c.found, busy |-> {}]]]
    /\ UNCHANGED lockFrame

\* the call returns and the guard is dropped
LockRelease ==
    /\ \E t \in Threads :
           /\ threads.call[t].pc = "return"
           /\ threads' = [threads EXCEPT
                            !.lock = IF @ = t THEN 0 ELSE @,
                            !.call[t] = IdleCall(threads.call[t].op)]
    /\ UNCHANGED lockFrame

LockNext ==
    \/ LockCall
    \/ LockAcquire
    \/ LockBegin
    \/ LockEnd
    \/ LockTake
    \/ LockDone
    \/ LockJoin
    \/ LockLookedUp
    \/ LockRelease

SpecLock == LockInit /\ [][LockNext]_vars

\* C15: at most one user is inside a statement on the connection, and that
\* user is a calling thread that holds the lock and has no parallel region
\* running; no worker of the pool is ever a user.
C15_ConnectionNotShared ==
    /\ Cardinality(threads.conn) <= 1
    /\ \A u \in threads.conn :
           /\ u.worker = 0
           /\ threads.lock = u.thread
           /\ threads.call[u.thread].pc \notin {"pass1", "pass2"}

\* C15 witness: one thread is inside the get_sound of a candidate, after its
\* first parallel region, while the other thread waits for the lock.
C15_Witness ==
    \E t, u \in Threads :
        /\ t # u
        /\ threads.call[t].pc = "in_get_sound"
        /\ threads.call[u].pc = "lock"
        /\ User(t, 0) \in threads.conn

-----------------------------------------------------------------------------
(* midi/mod.rs: export_matches_to_midi *)

(* A file is [exists, content], its content a sequence of chunks; the        *)
(* Standard MIDI File the call encodes is one header chunk followed by one   *)
(* chunk per track.  midi.build tells whether the build checks integer       *)
(* overflow (debug) or wraps (release).                                      *)

Chunk(kind, data) == [kind |-> kind, data |-> data]

Absent == [exists |-> FALSE, content |-> <<>>]

Present(content) == [exists |-> TRUE, content |-> content]

\* x as u32, for an x below 2^31: a negative value and NaN become 0
as_u32(x) == IF is_nan(x) \/ x < 0 THEN 0 ELSE x

\* x as u8: saturating, NaN becomes 0
as_u8(x) == IF is_nan(x) \/ x < 0 THEN 0 ELSE Min(x, 255)

\* (m.match_start * ticks_per_second) as u32, with
\* ticks_per_second = ticks_per_beat * tempo_bpm / 60.0
start_ticks(m, config) ==
    as_u32((m.match_start.n * config.ticks_per_beat * config.tempo_bpm)
             \div (m.match_start.r * 60))

\* ((m.match_end - m.match_start) * ticks_per_second) as u32, then .max(1)
duration_ticks(m, config) ==
    LET num == m.match_end.n * m.match_start.r - m.match_start.n * m.match_end.r
        den == m.match_end.r * m.match_start.r * 60
    IN Max(as_u32(IF num < 0 THEN 0 - 1
                  ELSE (num * config.ticks_per_beat * config.tempo_bpm) \div den), 1)

\* the cast of line 73 without the clamp of line 74
velocity_unclamped(score) ==
    as_u8(IF is_nan(score) THEN NaN
          ELSE IF 4000 + 87 * score < 0 THEN 0 - 1
          ELSE (4000 + 87 * score) \div 100)

\* (40.0 + (m.score / 100.0) * 87.0) as u8, then .clamp(40, 127)
velocity(score) ==
    LET v == IF is_nan(score) THEN NaN
             ELSE IF 4000 + 87 * score < 0 THEN 0 - 1
             ELSE (4000 + 87 * score) \div 100
    IN Min(Max(as_u8(v), 40), 127)

\* config.base_note + i as u8 overflows u8
note_overflows(base_note, i) == base_note + i > 255

\* (config.base_note + i as u8).min(127) in a build that wraps
note(base_note, i) == Min((base_note + i) % 256, 127)

\* the track of match m, the i-th of the list (from 0)
match_track(m, i, config) ==
    Chunk("MTrk", <<start_ticks(m, config), note(config.base_note, i),
                    velocity(m.score), duration_ticks(m, config)>>)

\* the bytes smf.write puts in the buffer: the header, the tempo track and
\* the tracks of the first 15 matches
smf(matches, config) ==
    <<Chunk("MThd", <<Min(Len(matches), 15) + 1, config.ticks_per_beat>>),
      Chunk("MTrk", <<60000000 \div config.tempo_bpm>>)>>
      \o [i \in 1..Min(Len(matches), 15) |-> match_track(matches[i], i - 1, config)]

MidiError(text) == [variant |-> "MidiError", text |-> text]

IoError(text) == [variant |-> "IoError", text |-> text]

\* lines 33-120 without the check of line 33
encode_unchecked(matches, config, build) ==
    IF config.tempo_bpm = 0 THEN [kind |-> "panic"]
    ELSE IF build = "debug"
            /\ \E i \in 1..Min(Len(matches), 15) : note_overflows(config.base_note, i - 1)
    THEN [kind |-> "panic"]
    ELSE [kind |-> "ok", buffer |-> smf(matches, config)]

\* what the code does before File::create: Err on an empty list, a panic on
\* the division by a zero tempo or on an overflow the build checks, else the
\* encoded buffer
encode(matches, config, build) ==
    IF matches = <<>>
    THEN [kind |-> "err", err |-> MidiError("No matches to export")]
    ELSE IF config.tempo_bpm = 0 THEN [kind |-> "panic"]
    ELSE IF build = "debug"
            /\ \E i \in 1..Min(Len(matches), 15) : note_overflows(config.base_note, i - 1)
    THEN [kind |-> "panic"]
    ELSE [kind |-> "ok", buffer |-> smf(matches, config)]

MidiMatch(score, match_start, match_end) ==
    [score |-> score, match_start |-> match_start, match_end |-> match_end]

\* the scores of the long list: in range, below 0, above 100, NaN
MidiScores == <<50, 100, 0, 0 - 50, 150, NaN, 99, 1>>

MidiMatchLists ==
    { <<>>,
      <<MidiMatch(50, Time(0, 1), Time(2, 1))>>,
      <<MidiMatch(50, Time(0, 1), Time(2, 1)), MidiMatch(100, Time(1, 2), Time(1, 1))>>,
      [i \in 1..16 |-> MidiMatch(MidiScores[((i - 1) % 8) + 1], Time(i, 2),
                                 Time(8, 1))] }

MidiConfigs ==
    {[tempo_bpm |-> t, base_note |-> b, ticks_per_beat |-> 480] :
        t \in {0, 120}, b \in {60, 120, 250}}

OldContent == <<Chunk("old", <<>>)>>

MidiInit ==
    /\ StoreInit
    /\ files = NoFiles
    /\ QueryIdle
    /\ seg = None
    /\ api = None
    /\ threads = None
    /\ calc = None
    /\ loading = None
    /\ \E build \in {"debug", "release"}, fs \in {Absent, Present(OldContent)} :
           midi = [pc |-> "idle", build |-> build, fs |-> fs, fs0 |-> fs,
                   matches |-> <<>>, config |-> None, buffer |-> <<>>,
                   ret |-> [kind |-> "none"]]

midiFrame == <<sounds, fingerprints, seq, foreign_keys, now, issued, ret, files,
               query, pc, scan, scored, candidates, fine, results, seg,
               live, api, threads, calc, loading>>

\* a caller calls export_matches_to_midi; midi.fs0 keeps the file as it is now
MidiCall ==
    /\ midi.pc = "idle"
    /\ \E matches \in MidiMatchLists, config \in MidiConfigs :
           midi' = [midi EXCEPT !.pc = "encode", !.matches = matches, !.config = config,
                                !.fs0 = midi.fs, !.buffer = <<>>,
                                !.ret = [kind |-> "none"]]
    /\ UNCHANGED midiFrame

\* lines 33-120: the check, the tracks, smf.write into the buffer
MidiEncode ==
    /\ midi.pc = "encode"
    /\ midi' = [midi EXCEPT
                  !.pc = IF encode(midi.matches, midi.config, midi.build).kind = "ok"
                         THEN "create" ELSE "idle",
                  !.buffer = IF encode(midi.matches, midi.config, midi.build).kind = "ok"
                             THEN encode(midi.matches, midi.config, midi.build).buffer
                             ELSE <<>>,
                  !.ret = IF encode(midi.matches, midi.config, midi.build).kind = "ok"
                          THEN [kind |-> "none"]
                          ELSE encode(midi.matches, midi.config, midi.build)]
    /\ UNCHANGED midiFrame

\* line 122: File::create makes the file or truncates it, or fails
MidiCreate ==
    /\ midi.pc = "create"
    /\ \/ midi' = [midi EXCEPT !.pc = "write", !.fs = Present(<<>>)]
       \/ midi' = [midi EXCEPT !.pc = "idle",
                               !.ret = [kind |-> "err", err |-> IoError("create")]]
    /\ UNCHANGED midiFrame

\* line 123: write_all writes the buffer, or fails behind some part of it
MidiWrite ==
    /\ midi.pc = "write"
    /\ \E k \in 0..Len(midi.buffer) :
           midi' = [midi EXCEPT
                      !.pc = "idle",
                      !.fs = Present(SubSeq(midi.buffer, 1, k)),
                      !.ret = IF k = Len(midi.buffer) THEN [kind |-> "ok"]
                              ELSE [kind |-> "err", err |-> IoError("write")]]
    /\ UNCHANGED midiFrame

MidiNext ==
    \/ MidiCall
    \/ MidiEncode
    \/ MidiCreate
    \/ MidiWrite

SpecMidi == MidiInit /\ [][MidiNext]_vars

\* C20: a call with an empty list returns MidiError("No matches to export")
\* and leaves the output file as it was, absent or with its content; a call
\* with a non-empty list has a file other than the one it found only once the
\* whole stream is in the buffer.
C20_FileOnlyAfterEncoding ==
    midi.ret.kind # "none" \/ midi.pc # "idle" =>
        /\ midi.matches = <<>> =>
              /\ midi.fs = midi.fs0
              /\ midi.pc # "encode" =>
                    /\ midi.pc = "idle"
                    /\ midi.ret = [kind |-> "err", err |-> MidiError("No matches to export")]
        /\ (midi.matches # <<>> /\ midi.fs # midi.fs0) =>
              /\ midi.config.tempo_bpm # 0
              /\ midi.buffer = smf(midi.matches, midi.config)

\* C20 witness: an export of two matches wrote its file, and a later export of
\* an empty list has returned and left that file in place.
C20_Witness ==
    /\ midi.pc = "idle"
    /\ midi.matches = <<>>
    /\ midi.ret.kind = "err"
    /\ midi.fs0.exists
    /\ Len(midi.fs0.content) = 4
    /\ midi.fs = midi.fs0

\* the tracks of the matches in an encoded buffer, and the match of each
MatchTracks == 1..Min(Len(midi.matches), 15)

TrackOf(i) == midi.buffer[i + 2].data

\* C21: the key of match track i is min(base_note + i, 127) for every
\* base_note of 0..255, and the sum is computed without overflow: no export
\* with a tempo other than 0 panics.
C21_KeyIsMinOfSum ==
    /\ midi.buffer # <<>> =>
          \A i \in MatchTracks :
              TrackOf(i)[2] = Min(midi.config.base_note + (i - 1), 127)
    /\ midi.ret.kind = "panic" => midi.config.tempo_bpm = 0

\* clamp(40 + (score / 100) * 87, 40, 127) truncated to an integer, in
\* hundredths until the truncation
ClampedVelocity(score) == Min(Max(4000 + 87 * score, 4000), 12700) \div 100

\* C22: the velocity of every match track is clamp(40 + (score/100)*87, 40,
\* 127) truncated, whatever the score, and lies in 40..127 (also for a score
\* that is NaN); score 50 gives 83 and score 100 gives 127.
C22_VelocityClamped ==
    midi.buffer # <<>> =>
        \A i \in MatchTracks :
            LET score == midi.matches[i].score
            IN /\ TrackOf(i)[3] \in 40..127
               /\ ~is_nan(score) => TrackOf(i)[3] = ClampedVelocity(score)
               /\ score = 50 => TrackOf(i)[3] = 83
               /\ score = 100 => TrackOf(i)[3] = 127

\* C22 witness: a file was written whose tracks carry scores of 50, of 100,
\* below 0, above 100 and NaN.
C22_Witness ==
    /\ midi.ret.kind = "ok"
    /\ midi.fs = Present(midi.buffer)
    /\ {50, 100, 0 - 50, 150, NaN} \subseteq {midi.matches[i].score : i \in MatchTracks}

\* C23: a query fingerprint of duration 0, or whose feature vector is all
\* zeros, gets an empty Match list from find_similar and from
\* find_similar_with_segments, whatever the store and the threshold.
C23_DegenerateQueryMatchesNothing ==
    /\ pc = "done"
    /\ query.query_fp.duration.n = 0 \/ AllZero(query.query_fp)
    => results = <<>>

\* C24: the hop the sliding-window loop advances by is
\* max(hop_samples, (len - window_samples) / 50) with hop_samples =
\* window_samples / 4, hence never below hop_samples.
C24_HopIsMax ==
    seg.pc = "loop" =>
        /\ seg.hop = Max(hop_samples(seg.window),
                         (SamplesLen(seg.audio.samples) - seg.window) \div max_windows)
        /\ seg.hop >= hop_samples(seg.window)

\* the same instant
TimeEq(a, b) == a.n * b.r = b.n * a.r

\* The windows a call that went through the loop has evaluated: the audio it
\* loaded, its window and hop, the window starts, and of each window whether
\* its extraction succeeded and its score.
SegAudio == load(seg.sound.filepath).audio

SegWindowSamples == window_samples(seg.query_fp, SegAudio)

SegHop == actual_hop(SamplesLen(SegAudio.samples), SegWindowSamples)

WindowStarts ==
    {k * SegHop : k \in 0..((SamplesLen(SegAudio.samples) - SegWindowSamples) \div SegHop)}

WindowFp(p) ==
    extract_from_samples(Slice(SegAudio.samples, p, SegWindowSamples),
                         SegAudio.sample_rate)

Extracted == {p \in WindowStarts : WindowFp(p).ok}

WindowScore(p) == similarity(seg.query_fp, WindowFp(p).fp)

\* p is the first of the windows of the highest score
FirstBest(p) ==
    /\ p \in Extracted
    /\ \A u \in Extracted : WindowScore(u) <= WindowScore(p)
    /\ \A u \in Extracted : WindowScore(u) = WindowScore(p) => p <= u

\* the call returns the score and the bounds of window p
ReturnsWindow(p) ==
    /\ seg.out.m.score = WindowScore(p)
    /\ TimeEq(seg.out.m.match_start, Time(p, SegAudio.sample_rate))
    /\ TimeEq(seg.out.m.match_end, Time(p + SegWindowSamples, SegAudio.sample_rate))

ReturnedSliding ==
    seg.pc = "returned" /\ seg.out.kind = "ok" /\ seg.out.branch = "sliding"

\* C26: the score and bounds returned by the sliding-window branch are those
\* of the window of the highest score among the windows whose extraction
\* succeeded, the first of them on a tie (where at least one succeeded).
C26_BestWindowReturned ==
    ReturnedSliding /\ Extracted # {} => \E p \in Extracted : FirstBest(p) /\ ReturnsWindow(p)

\* C26, amended: the same where some window scores above 0; where none does
\* (no extraction succeeded, or every score is 0) the call returns score 0,
\* match_start 0 and match_end = the query duration.  A failed extraction
\* never ends the call: it returns Ok.
C26_BestWindowOrDefault ==
    /\ ReturnedSliding =>
          IF \E p \in Extracted : WindowScore(p) > 0
          THEN \E p \in Extracted : FirstBest(p) /\ ReturnsWindow(p)
          ELSE /\ seg.out.m.score = 0
               /\ TimeEq(seg.out.m.match_start, TimeZero)
               /\ TimeEq(seg.out.m.match_end, seg.query_fp.duration)
    /\ seg.pc = "returned" /\ seg.out.kind = "err" =>
          \/ ~load(seg.sound.filepath).ok
          \/ TimeLE(SegAudio.duration, seg.query_fp.duration)

\* C26 witness: a call has returned the first of several windows of the same
\* highest score, which does not start at 0.
C26_Witness ==
    /\ ReturnedSliding
    /\ seg.out.m.match_start.n > 0
    /\ \E p, u \in Extracted :
          /\ p < u
          /\ FirstBest(p)
          /\ WindowScore(u) = WindowScore(p)
          /\ ReturnsWindow(p)

-----------------------------------------------------------------------------
(* search/mod.rs: the control flow of find_best_segment                       *)
(*                                                                            *)
(* Whether a call returns depends on the query duration, the length and the   *)
(* sample rate of the loaded audio only: the body of the loop (lines 178-187) *)
(* has no break, continue or return, so the scores are left out here and one  *)
(* step of the loop is pos += actual_hop.                                     *)

WinDurations == {Time(n, 8000) : n \in {0, 1, 3, 4, 7, 8, 100, 2048, 4000, 80000}}

WinLengths == {0, 3, 10, 51, 55, 204, 1300, 5000, 26625}

WinRates == {8000, 16000}

WinAudio(len, rate) == AudioData(IF len = 0 THEN <<>> ELSE <<Run(len, 1)>>, rate)

WinInit ==
    /\ sounds = EmptyTable
    /\ fingerprints = EmptyTable
    /\ seq = 0
    /\ foreign_keys = FALSE
    /\ now = 0
    /\ issued = <<>>
    /\ ret = None
    /\ live = {}
    /\ files = NoFiles
    /\ QueryIdle
    /\ RestIdle
    /\ \E d \in WinDurations, len \in WinLengths, rate \in WinRates :
          seg = [pc |-> "call", query_fp |-> [duration |-> d],
                 audio |-> WinAudio(len, rate), window |-> 0, hop |-> 0, pos |-> 0,
                 turns |-> 0, out |-> "none"]

\* lines 133-170: the two early returns, then the window and the hop; the
\* division by hop_samples panics when it is 0
WinEnter ==
    /\ seg.pc = "call"
    /\ \/ /\ \/ seg.query_fp.duration.n <= 0
             \/ TimeLE(seg.audio.duration, seg.query_fp.duration)
          /\ seg' = [seg EXCEPT !.pc = "returned", !.out = "ok"]
       \/ /\ seg.query_fp.duration.n > 0
          /\ ~TimeLE(seg.audio.duration, seg.query_fp.duration)
          /\ LET window == window_samples(seg.query_fp, seg.audio)
             IN seg' = IF hop_samples(window) = 0
                       THEN [seg EXCEPT !.pc = "returned", !.out = "panic",
                                        !.window = window]
                       ELSE [seg EXCEPT !.pc = "loop", !.window = window,
                                        !.hop = actual_hop(SamplesLen(seg.audio.samples),
                                                           window)]
    /\ UNCHANGED segFrame

\* lines 177-190: one iteration, pos += actual_hop; turns is the number of
\* iterations so far, modulo 2
WinStep ==
    /\ seg.pc = "loop"
    /\ LoopGuard(seg, seg.audio, seg.window)
    /\ seg' = [seg EXCEPT !.pos = seg.pos + seg.hop, !.turns = (seg.turns + 1) % 2]
    /\ UNCHANGED segFrame

\* lines 192-200: the loop is left and the call returns
WinLeave ==
    /\ seg.pc = "loop"
    /\ ~LoopGuard(seg, seg.audio, seg.window)
    /\ seg' = [seg EXCEPT !.pc = "returned", !.out = "ok"]
    /\ UNCHANGED segFrame

WinNext ==
    \/ WinEnter
    \/ WinStep
    \/ WinLeave

\* the call runs on a thread that keeps running: a step that can be taken is
\* taken
SpecWin == WinInit /\ [][WinNext]_vars /\ WF_vars(WinNext)

\* C28: a call of find_best_segment with a query duration above 0 returns,
\* without a division by zero (hop_samples >= 1) and without a loop that does
\* not advance (actual_hop >= 1).
C28_Terminates ==
    (seg.pc = "call" /\ seg.query_fp.duration.n > 0)
        ~> (seg.pc = "returned" /\ seg.out = "ok")

-----------------------------------------------------------------------------
(* fingerprint: the frames of the MFCC, spectral and chroma extractors        *)

\* for start in (0..len.saturating_sub(n_fft)).step_by(hop): the starts of the
\* frames, a range that excludes its end
frame_starts(len, hop) == {s \in 0..(Max(len - n_fft, 0) - 1) : s % hop = 0}

\* MfccExtractor::extract: Err below n_fft samples and when no frame was
\* processed; its hop is n_fft / 4
mfcc_extract(len) ==
    LET frames == frame_starts(len, n_fft \div 4)
    IN IF len < n_fft THEN [ok |-> FALSE, frames |-> {}]
       ELSE IF frames = {} THEN [ok |-> FALSE, frames |-> {}]
       ELSE [ok |-> TRUE, frames |-> frames]

\* SpectralExtractor::extract: zero features below n_fft samples
spectral_extract(len) ==
    IF len < n_fft THEN [ok |-> TRUE, frames |-> {}]
    ELSE [ok |-> TRUE, frames |-> frame_starts(len, hop_length)]

\* Fingerprinter::compute_chroma: a zero chroma below n_fft samples
compute_chroma(len) ==
    IF len < n_fft THEN [ok |-> TRUE, frames |-> {}]
    ELSE [ok |-> TRUE, frames |-> frame_starts(len, hop_length)]

\* Fingerprinter::extract with the frames of its three extractors
extract_frames(len) ==
    IF len = 0 THEN [ok |-> FALSE, frames |-> {}]
    ELSE IF ~mfcc_extract(len).ok THEN [ok |-> FALSE, frames |-> {}]
    ELSE [ok |-> TRUE,
          frames |-> mfcc_extract(len).frames \cup spectral_extract(len).frames
                        \cup compute_chroma(len).frames]

\* buffer lengths: empty, one sample, and around n_fft + k * hop_length
FrameLengths ==
    {0, 1} \cup {n_fft + k * hop_length + d : k \in 0..9, d \in {0 - 1, 0, 1}}

FramesInit ==
    /\ sounds = EmptyTable
    /\ fingerprints = EmptyTable
    /\ seq = 0
    /\ foreign_keys = FALSE
    /\ now = 0
    /\ issued = <<>>
    /\ ret = None
    /\ live = {}
    /\ files = NoFiles
    /\ QueryIdle
    /\ seg = None
    /\ api = None
    /\ threads = None
    /\ midi = None
    /\ loading = None
    /\ \E len \in FrameLengths :
          calc = [pc |-> "args", len |-> len, ok |-> FALSE, frames |-> {}]

\* the call returns: whether it is Ok and the frames it processed
Returns(method, r) ==
    calc' = [pc |-> method, len |-> calc.len, ok |-> r.ok, frames |-> r.frames]

CallMfccExtract ==
    /\ calc.pc = "args"
    /\ Returns("mfcc", mfcc_extract(calc.len))
    /\ UNCHANGED fpFrame

CallSpectralExtract ==
    /\ calc.pc = "args"
    /\ Returns("spectral", spectral_extract(calc.len))
    /\ UNCHANGED fpFrame

\* called by extract, on a buffer that is not empty
CallComputeChroma ==
    /\ calc.pc = "args"
    /\ calc.len > 0
    /\ Returns("chroma", compute_chroma(calc.len))
    /\ UNCHANGED fpFrame

\* Fingerprinter::extract
CallExtract ==
    /\ calc.pc = "args"
    /\ Returns("extract", extract_frames(calc.len))
    /\ UNCHANGED fpFrame

FramesNext ==
    \/ CallMfccExtract
    \/ CallSpectralExtract
    \/ CallComputeChroma
    \/ CallExtract

SpecFrames == FramesInit /\ [][FramesNext]_vars

\* the frames that fit: start = 0, hop, 2 * hop, ... with start + n_fft <= len
FittingFrames(len, hop) == {s \in 0..len : s % hop = 0 /\ s + n_fft <= len}

\* C25: each extractor processes exactly the frames that fit, that is
\* floor((len - n_fft) / hop) + 1 frames when len >= n_fft; exactly n_fft
\* samples give one frame, and extract fails only below one frame.
C25_FramesThatFit ==
    /\ calc.pc \in {"mfcc", "spectral", "chroma"} /\ calc.len >= n_fft =>
          /\ calc.frames = FittingFrames(calc.len, hop_length)
          /\ Cardinality(calc.frames) = (calc.len - n_fft) \div hop_length + 1
    /\ calc.pc = "extract" => (calc.ok <=> FittingFrames(calc.len, hop_length) # {})

-----------------------------------------------------------------------------
(* Reading a store that holds rows whose document does not parse *)

\* the fingerprints of the rows: two tones, and one whose RMS mean is NaN,
\* stored as null, which does not read back
RowFps ==
    << AudioFingerprint(Time(16000, 8000), 8000, 2, 0, 0),
       AudioFingerprint(Time(16000, 8000), 8000, 0, 0, 2),
       AudioFingerprint(Time(4000, 16000), 16000, 0, 0, NaN) >>

MaxRows == 3

\* the stores of up to MaxRows sounds, each with a fingerprint row
RowStores == UNION {[1..n -> DOMAIN RowFps] : n \in 0..MaxRows}

RowsInit ==
    /\ \E f \in RowStores :
          /\ sounds = [i \in DOMAIN f |->
                          SoundRecord(i, PathOf(i), ToString(i), Time(16000, 8000),
                                      8000, 1, "unknown", 0)]
          /\ fingerprints = [i \in DOMAIN f |-> to_json(RowFps[f[i]])]
          /\ seq = Len(f)
          /\ issued = [i \in DOMAIN f |-> [id |-> i, filepath |-> PathOf(i)]]
          /\ live = {[id |-> i, filepath |-> PathOf(i)] : i \in DOMAIN f}
    /\ \E fp \in {RowFps[1], RowFps[2]}, threshold \in {0, 60},
          max_results \in {1, MaxRows} :
          query = [op |-> "find_similar", query_fp |-> fp, threshold |-> threshold,
                   max_results |-> max_results]
    /\ foreign_keys = TRUE
    /\ now = 0
    /\ ret = [op |-> "none", kind |-> "none", value |-> <<>>]
    /\ files = NoFiles
    /\ pc = "idle"
    /\ scan = None
    /\ scored = <<>>
    /\ candidates = <<>>
    /\ fine = None
    /\ results = <<>>
    /\ seg = None
    /\ RestIdle

rowsFrame == <<sounds, fingerprints, seq, foreign_keys, now, issued, files,
               query, pc, scan, scored, candidates, fine, results, seg,
               live, api, threads, midi, calc, loading>>

\* db.get_all_fingerprints()
RowsGetAllFingerprints ==
    /\ ret.op # "get_all_fingerprints"
    /\ ret' = [op |-> "get_all_fingerprints", kind |-> "ok",
               value |-> get_all_fingerprints]
    /\ UNCHANGED rowsFrame

\* engine.find_similar(&query_fp, &db, threshold, max_results)
RowsFindSimilar ==
    /\ ret.op # "find_similar"
    /\ ret' = [op |-> "find_similar", kind |-> whole_file_outcome(query).kind,
               value |-> whole_file_outcome(query).value]
    /\ UNCHANGED rowsFrame

RowsNext ==
    \/ RowsGetAllFingerprints
    \/ RowsFindSimilar

SpecRows == RowsInit /\ [][RowsNext]_vars

\* the ids of the rows whose document parses
Readable == {id \in DOMAIN fingerprints : from_json(fingerprints[id]).ok}

\* the readable rows whose score against the query meets the threshold
Matching == {id \in Readable : CoarseScore(id) >= query.threshold}

\* C27: get_all_fingerprints returns Ok with exactly the (id, fingerprint)
\* pairs of the rows whose document parses, whatever the other rows hold; and
\* find_similar over such a store returns Ok with the Matches of the readable
\* rows: each with its score >= T, and all of them unless max_results cuts
\* the list.
C27_UnreadableRowsSkipped ==
    /\ ret.op = "get_all_fingerprints" =>
          /\ ret.kind = "ok"
          /\ {ret.value[k].sound_id : k \in DOMAIN ret.value} = Readable
          /\ Len(ret.value) = Cardinality(Readable)
          /\ \A k \in DOMAIN ret.value :
                ret.value[k].fp = from_json(fingerprints[ret.value[k].sound_id]).fp
    /\ ret.op = "find_similar" =>
          /\ ret.kind = "ok"
          /\ {ret.value[k].sound_id : k \in DOMAIN ret.value} \subseteq Matching
          /\ Len(ret.value) = Min(Cardinality(Matching), query.max_results)
          /\ \A k \in DOMAIN ret.value :
                ret.value[k].score = CoarseScore(ret.value[k].sound_id)

\* C27 witness: find_similar has returned the Match of a readable row stored
\* after a row that does not parse.
C27_Witness ==
    /\ ret.op = "find_similar"
    /\ \E k \in DOMAIN ret.value :
          \E bad \in DOMAIN fingerprints \ Readable : bad < ret.value[k].sound_id

-----------------------------------------------------------------------------
(* audio.rs: AudioData::load, packet by packet                                *)
(*                                                                            *)
(* The media source is the environment.  It answers the calls before the      *)
(* loop (open, probe, default track, decoder) and then each next_packet():    *)
(* first the outcomes of its packets in order, and after the last of them     *)
(* always the same thing: the end of the stream (an IoError of kind           *)
(* UnexpectedEof), or an error of another kind that stays (a read that keeps  *)
(* failing; the reader's contract calls every error but ResetRequired         *)
(* unrecoverable).                                                            *)

\* what one next_packet() and the decode of its packet can give: a packet of
\* the track that decodes, a packet of another track, a packet of the track
\* that does not decode, and an error that is not the end of the stream
PacketOutcomes == {"packet", "other_track", "bad_packet", "read_error"}

MaxPackets == 3

PacketStreams == UNION {[1..n -> PacketOutcomes] : n \in 0..MaxPackets}

OpenErrors ==
    {"Cannot open file", "Format probe failed", "No audio track found",
     "Decoder creation failed"}

MediaSources ==
    {[opens |-> "ok", packets |-> ps, end |-> e] :
        ps \in PacketStreams, e \in {"eof", "read_error"}}
      \cup {[opens |-> o, packets |-> <<>>, end |-> "eof"] : o \in OpenErrors}

LoadInit ==
    /\ sounds = EmptyTable
    /\ fingerprints = EmptyTable
    /\ seq = 0
    /\ foreign_keys = FALSE
    /\ now = 0
    /\ issued = <<>>
    /\ ret = None
    /\ live = {}
    /\ files = NoFiles
    /\ QueryIdle
    /\ seg = None
    /\ api = None
    /\ threads = None
    /\ midi = None
    /\ calc = None
    /\ \E source \in MediaSources :
          loading = [pc |-> "call", source |-> source, read |-> 0, samples |-> 0,
                     warnings |-> 0, out |-> "none"]

loadFrame == <<sounds, fingerprints, seq, foreign_keys, now, issued, ret, files,
               query, pc, scan, scored, candidates, fine, results, seg,
               live, api, threads, midi, calc>>

\* format.next_packet(), and decoder.decode(&packet) where there is a packet
next_packet ==
    IF loading.source.packets = <<>> THEN loading.source.end
    ELSE Head(loading.source.packets)

\* the source after the call: a packet that was read is consumed
advanced ==
    IF loading.source.packets = <<>> THEN loading.source
    ELSE [loading.source EXCEPT !.packets = Tail(loading.source.packets)]

\* log::warn!: the number of warnings logged so far, modulo 2
warned == (loading.warnings + 1) % 2

\* lines 28-57: open, probe, default track, decoder; each failure returns Err
LoadOpen ==
    /\ loading.pc = "call"
    /\ loading' = IF loading.source.opens = "ok"
                  THEN [loading EXCEPT !.pc = "loop"]
                  ELSE [loading EXCEPT !.pc = "returned", !.out = "err"]
    /\ UNCHANGED loadFrame

\* lines 65-69: next_packet reports the end of the stream: break, and lines
\* 104-111 return Ok
LoadEndOfStream ==
    /\ loading.pc = "loop"
    /\ next_packet = "eof"
    /\ loading' = [loading EXCEPT !.pc = "returned", !.out = "ok"]
    /\ UNCHANGED loadFrame

\* lines 70-73: any other error of next_packet: warn and continue
LoadReadError ==
    /\ loading.pc = "loop"
    /\ next_packet = "read_error"
    /\ loading' = [loading EXCEPT !.source = advanced, !.warnings = warned]
    /\ UNCHANGED loadFrame

\* lines 76-78: a packet of another track: continue
LoadOtherTrack ==
    /\ loading.pc = "loop"
    /\ next_packet = "other_track"
    /\ loading' = [loading EXCEPT !.source = advanced, !.read = loading.read + 1]
    /\ UNCHANGED loadFrame

\* lines 80-97: the packet decodes and its frames are pushed
LoadDecoded ==
    /\ loading.pc = "loop"
    /\ next_packet = "packet"
    /\ loading' = [loading EXCEPT !.source = advanced, !.read = loading.read + 1,
                                  !.samples = loading.samples + 1]
    /\ UNCHANGED loadFrame

\* lines 98-101: the packet does not decode: warn and continue
LoadDecodeError ==
    /\ loading.pc = "loop"
    /\ next_packet = "bad_packet"
    /\ loading' = [loading EXCEPT !.source = advanced, !.read = loading.read + 1,
                                  !.warnings = warned]
    /\ UNCHANGED loadFrame

LoadNext ==
    \/ LoadOpen
    \/ LoadEndOfStream
    \/ LoadReadError
    \/ LoadOtherTrack
    \/ LoadDecoded
    \/ LoadDecodeError

\* load runs on the caller's thread, which keeps running: the next step of
\* the call is taken
SpecLoad == LoadInit /\ [][LoadNext]_vars /\ WF_vars(LoadNext)

\* C29: AudioData::load returns for every sequence of packet outcomes: read
\* and decode errors are skipped, and no repeated read error that is not the
\* end of the stream keeps the loop running for ever.
C29_LoadReturns == <>(loading.pc = "returned")

====
